---------------------------- MODULE Spec2Model ----------------------------
(***************************************************************************)
(* Verification model of the reversible two-dimensional Markov process     *)
(* engine (src/markov.js, class ReversibleMarkovProcess).                  *)
(*                                                                         *)
(* JavaScript numbers are modelled as exact non-negative rationals over    *)
(* arbitrary-size naturals (TLC's own integers are 32 bit wide, too small  *)
(* for the products the engine forms and for its 1e-10 thresholds).  The   *)
(* rounding of IEEE doubles is therefore not part of the model; the        *)
(* comparisons the code makes with tolerances (1e-10, 1e-100) are kept.    *)
(***************************************************************************)
EXTENDS Integers, Sequences, FiniteSets, TLC

(***************************************************************************)
(* Arbitrary-size naturals: little-endian sequences of limbs in base       *)
(* LimbBase, without leading zero limbs; zero is the empty sequence.       *)
(***************************************************************************)
LimbBase == 100 * 100

RECURSIVE NatOf(_)
NatOf(n) == IF n = 0 THEN << >> ELSE <<n % LimbBase>> \o NatOf(n \div LimbBase)

RECURSIVE NAddC(_, _, _)
NAddC(a, b, c) ==
    IF a = << >> /\ b = << >>
    THEN IF c = 0 THEN << >> ELSE <<c>>
    ELSE LET da == IF a = << >> THEN 0 ELSE Head(a)
             db == IF b = << >> THEN 0 ELSE Head(b)
             s  == da + db + c
             ta == IF a = << >> THEN << >> ELSE Tail(a)
             tb == IF b = << >> THEN << >> ELSE Tail(b)
         IN  <<s % LimbBase>> \o NAddC(ta, tb, s \div LimbBase)

NAdd(a, b) == NAddC(a, b, 0)

RECURSIVE NMulSmallC(_, _, _)
NMulSmallC(a, k, c) ==
    IF a = << >>
    THEN IF c = 0 THEN << >> ELSE <<c>>
    ELSE LET p == Head(a) * k + c
         IN  <<p % LimbBase>> \o NMulSmallC(Tail(a), k, p \div LimbBase)

NMulSmall(a, k) == IF k = 0 THEN << >> ELSE NMulSmallC(a, k, 0)

NShift(a) == IF a = << >> THEN << >> ELSE <<0>> \o a

\* schoolbook product, one limb of a at a time
RECURSIVE NMulLimbs(_, _)
NMulLimbs(a, b) ==
    IF a = << >> THEN << >>
    ELSE LET rest == NShift(NMulLimbs(Tail(a), b))
         IN  NAdd(NMulSmall(b, Head(a)), rest)

\* the recursion runs over the shorter factor
NMul(a, b) ==
    NMulLimbs(IF Len(a) <= Len(b) THEN a ELSE b, IF Len(a) <= Len(b) THEN b ELSE a)

\* -1, 0 or 1 as a < b, a = b, a > b
RECURSIVE NCmpFrom(_, _, _)
NCmpFrom(a, b, i) ==
    IF i = 0 THEN 0
    ELSE IF a[i] < b[i] THEN -1
    ELSE IF a[i] > b[i] THEN 1
    ELSE NCmpFrom(a, b, i - 1)

NCmp(a, b) ==
    IF Len(a) < Len(b) THEN -1
    ELSE IF Len(a) > Len(b) THEN 1
    ELSE NCmpFrom(a, b, Len(a))

RECURSIVE NTrim(_)
NTrim(a) ==
    IF a = << >> THEN << >>
    ELSE IF a[Len(a)] = 0 THEN NTrim(SubSeq(a, 1, Len(a) - 1))
    ELSE a

\* a - b for a >= b
RECURSIVE NSubB(_, _, _)
NSubB(a, b, borrow) ==
    IF a = << >> THEN << >>
    ELSE LET db == IF b = << >> THEN 0 ELSE Head(b)
             tb == IF b = << >> THEN << >> ELSE Tail(b)
             s  == Head(a) - db - borrow
         IN  IF s < 0
             THEN <<s + LimbBase>> \o NSubB(Tail(a), tb, 1)
             ELSE <<s>> \o NSubB(Tail(a), tb, 0)

NSub(a, b) == NTrim(NSubB(a, b, 0))

\* 10^e: e \div 4 zero limbs below the limb 10^(e % 4)
NPow10(e) ==
    [i \in 1..((e \div 4) + 1) |->
        IF i <= e \div 4 THEN 0 ELSE <<1, 10, 100, 1000>>[(e % 4) + 1]]

\* a % k and a \div k for 0 < k < LimbBase, from the most significant limb down
RECURSIVE NModSmallFrom(_, _, _, _)
NModSmallFrom(a, i, k, r) ==
    IF i = 0 THEN r ELSE NModSmallFrom(a, i - 1, k, (r * LimbBase + a[i]) % k)

NModSmall(a, k) == NModSmallFrom(a, Len(a), k, 0)

RECURSIVE NDivSmallFrom(_, _, _, _)
NDivSmallFrom(a, i, k, r) ==
    IF i = 0 THEN << >>
    ELSE LET cur == r * LimbBase + a[i]
         IN  Append(NDivSmallFrom(a, i - 1, k, cur % k), cur \div k)

NDivSmall(a, k) == NTrim(NDivSmallFrom(a, Len(a), k, 0))

(***************************************************************************)
(* Non-negative rationals n/d (d > 0), compared by cross multiplication.   *)
(* RReduce cancels the common factors that are powers of the small primes  *)
(* (the value is unchanged; it only keeps the numerals short).             *)
(***************************************************************************)
Rat(n, d) == [n |-> NatOf(n), d |-> NatOf(d)]
RInt(k)   == [n |-> NatOf(k), d |-> NatOf(1)]
RZero     == RInt(0)
ROne      == RInt(1)

RAdd(a, b) == [n |-> NAdd(NMul(a.n, b.d), NMul(b.n, a.d)), d |-> NMul(a.d, b.d)]
RMul(a, b) == [n |-> NMul(a.n, b.n), d |-> NMul(a.d, b.d)]
\* a / b for b > 0
RDiv(a, b) == [n |-> NMul(a.n, b.d), d |-> NMul(a.d, b.n)]
RCmp(a, b) == NCmp(NMul(a.n, b.d), NMul(b.n, a.d))
REq(a, b)  == RCmp(a, b) = 0
RLt(a, b)  == RCmp(a, b) < 0
RLe(a, b)  == RCmp(a, b) <= 0
RIsZero(a) == a.n = << >>
RMax(a, b) == IF RLt(a, b) THEN b ELSE a
\* Math.abs(a - b)
NAbsDiff(p, q) == IF NCmp(p, q) >= 0 THEN NSub(p, q) ELSE NSub(q, p)
RAbsDiff(a, b) ==
    [n |-> NAbsDiff(NMul(a.n, b.d), NMul(b.n, a.d)), d |-> NMul(a.d, b.d)]
SmallPrimes == <<2, 3, 5, 7, 11, 13, 17, 19, 23, 29, 31, 37, 41, 43, 47>>

RECURSIVE RCancel(_, _)
RCancel(a, i) ==
    IF i > Len(SmallPrimes) THEN a
    ELSE IF a.n # << >> /\ NModSmall(a.n, SmallPrimes[i]) = 0
                        /\ NModSmall(a.d, SmallPrimes[i]) = 0
    THEN RCancel([n |-> NDivSmall(a.n, SmallPrimes[i]),
                  d |-> NDivSmall(a.d, SmallPrimes[i])], i)
    ELSE RCancel(a, i + 1)

RReduce(a) == IF a.n = << >> THEN [n |-> << >>, d |-> NatOf(1)] ELSE RCancel(a, 1)

\* the literal 1e-<e>
RTenToMinus(e) == [n |-> NatOf(1), d |-> NPow10(e)]

(***************************************************************************)
(* State.  The engine (class ReversibleMarkovProcess) holds params and     *)
(* _factorialCache; call is the public method call in progress or just     *)
(* returned, with its arguments and its outcome.  dashboard is the page's  *)
(* MarkovDashboard with its form, animation its PopulationAnimationEngine  *)
(* with the timers it has pending.                                         *)
(***************************************************************************)
VARIABLES
    params,          \* this.params
    factorialCache,  \* this._factorialCache: a function n -> n!
    call,            \* [op, args, threw, ret] of the last call, or NoCall
    sim,             \* the locals of a running simulate() call, or NoSim
    dashboard,       \* the MarkovDashboard and the form, or NoDashboard
    animation        \* the PopulationAnimationEngine, or NoAnimation

vars == <<params, factorialCache, call, sim, dashboard, animation>>

NoSim == [pc |-> "none"]

NoDashboard == [loaded |-> FALSE]

NoAnimation == [created |-> FALSE]

NoCall == [op |-> "none", args |-> << >>, threw |-> FALSE, ret |-> << >>]

(***************************************************************************)
(* Outcomes of a method: a returned value, or a thrown Error.              *)
(***************************************************************************)
Ok(v)  == [ok |-> TRUE, v |-> v]
Threw  == [ok |-> FALSE, v |-> << >>]

\* the constructor's defaults (params.X || default)
DefaultParams ==
    [alpha1 |-> Rat(3, 2), alpha2 |-> Rat(6, 5),
     beta1 |-> Rat(4, 5), beta2 |-> Rat(4, 5), gamma |-> Rat(3, 2),
     delta1 |-> Rat(9, 10), delta2 |-> Rat(7, 10),
     beta1_hat |-> Rat(6, 5), beta2_hat |-> Rat(6, 5),
     gamma_hat |-> Rat(4, 5)]

\* _validateState: both coordinates non-negative integers
validateState(x, y) == x \in Nat /\ y \in Nat

\* the guard `denominator <= 1e-10` of the four rate functions
DenominatorTooSmall(den) == RLe(den, RTenToMinus(10))

\* the tail shared by the four rate functions:
\*   if (denominator <= 1e-10) throw ...;  return numerator / denominator;
RateOver(numerator, denominator) ==
    IF DenominatorTooSmall(denominator) THEN Threw
    ELSE Ok(RDiv(numerator, denominator))

\* a + k for an integer k >= 0 (gamma + x + y, beta1 + x, ...)
PlusInt(a, k) == [n |-> NAdd(a.n, NMulSmall(a.d, k)), d |-> a.d]

lambda1(x, y) ==
    IF ~validateState(x, y) THEN Threw
    ELSE RateOver(RMul(params.alpha1, PlusInt(params.beta1, x)),
                  PlusInt(params.gamma, x + y))

lambda2(x, y) ==
    IF ~validateState(x, y) THEN Threw
    ELSE RateOver(RMul(params.alpha2, PlusInt(params.beta2, y)),
                  PlusInt(params.gamma, x + y))

\* mu1 with the environmental pressure taken from the red population alone
mu1_IgnoringBlue(x, y) ==
    IF ~validateState(x, y) THEN Threw
    ELSE IF x = 0 THEN Ok(RZero)
    ELSE RateOver(RMul(RMul(RInt(x), params.delta1), PlusInt(params.gamma_hat, x)),
                  PlusInt(params.beta1_hat, x))

\* mu1 answering for an empty red population before the state is validated
mu1_ZeroFirst(x, y) ==
    IF x = 0 THEN Ok(RZero)
    ELSE IF ~validateState(x, y) THEN Threw
    ELSE RateOver(RMul(RMul(RInt(x), params.delta1), PlusInt(params.gamma_hat, x + y)),
                  PlusInt(params.beta1_hat, x))

mu1(x, y) ==
    IF ~validateState(x, y) THEN Threw
    ELSE IF x = 0 THEN Ok(RZero)
    ELSE RateOver(RMul(RMul(RInt(x), params.delta1), PlusInt(params.gamma_hat, x + y)),
                  PlusInt(params.beta1_hat, x))

\* mu2 without the return for y = 0, counting the individual about to arrive
mu2_OneMore(x, y) ==
    IF ~validateState(x, y) THEN Threw
    ELSE RateOver(RMul(RMul(RInt(y + 1), params.delta2), PlusInt(params.gamma_hat, x + y)),
                  PlusInt(params.beta2_hat, y))

mu2(x, y) ==
    IF ~validateState(x, y) THEN Threw
    ELSE IF y = 0 THEN Ok(RZero)
    ELSE RateOver(RMul(RMul(RInt(y), params.delta2), PlusInt(params.gamma_hat, x + y)),
                  PlusInt(params.beta2_hat, y))

\* a + b, a * b of two outcomes: the first throw propagates
OkAdd(a, b) == IF a.ok /\ b.ok THEN Ok(RAdd(a.v, b.v)) ELSE Threw
OkMul(a, b) == IF a.ok /\ b.ok THEN Ok(RMul(a.v, b.v)) ELSE Threw

\* totalRate adding the two arrival rates only
totalRate_ArrivalsOnly(x, y) == OkAdd(lambda1(x, y), lambda2(x, y))

totalRate(x, y) ==
    OkAdd(OkAdd(OkAdd(lambda1(x, y), lambda2(x, y)), mu1(x, y)), mu2(x, y))

(***************************************************************************)
(* factorial(n) with its memoization cache: the value and the cache after  *)
(* the call.                                                               *)
(***************************************************************************)
\* the cache written one key too low: cache.set(n - 1, result)
Store_AtPredecessor(n, result, cache) ==
    [ok |-> TRUE, v |-> result, cache |-> ((n - 1) :> result) @@ cache]

\* cache.set(n, result); return result
Store(n, result, cache) ==
    [ok |-> TRUE, v |-> result, cache |-> (n :> result) @@ cache]

\* const result = n * this.factorial(n - 1), sub being the inner call's outcome
Memoize(n, sub) == Store(n, RMul(RInt(n), sub.v), sub.cache)

RECURSIVE factorial(_, _)
factorial(n, cache) ==
    IF n \notin Nat THEN [ok |-> FALSE, v |-> << >>, cache |-> cache]
    ELSE IF n <= 1 THEN [ok |-> TRUE, v |-> ROne, cache |-> cache]
    ELSE IF n \in DOMAIN cache THEN [ok |-> TRUE, v |-> cache[n], cache |-> cache]
    ELSE Memoize(n, factorial(n - 1, cache))

\* this.factorial(x) * this.factorial(y): the product and the cache after both
FactorialProduct2(fx, fy) == [v |-> RMul(fx.v, fy.v), cache |-> fy.cache]
FactorialProduct1(fx, y) == FactorialProduct2(fx, factorial(y, fx.cache))
FactorialProduct(x, y, cache) == FactorialProduct1(factorial(x, cache), y)

\* Math.pow(base, k) for an integer k >= 0
RECURSIVE MathPow(_, _)
MathPow(base, k) ==
    IF k = 0 THEN ROne ELSE RReduce(RMul(base, MathPow(base, k - 1)))

\* the loop `for (let i = 1; i <= x; i++) xNumerator *= ...` from i on
RECURSIVE xNumerator(_, _)
xNumerator(i, x) ==
    IF i > x THEN ROne
    ELSE RReduce(RMul(RMul(PlusInt(params.beta1, i - 1), PlusInt(params.beta1_hat, i)),
                      xNumerator(i + 1, x)))

RECURSIVE xDenominator(_, _)
xDenominator(i, x) ==
    IF i > x THEN ROne
    ELSE RReduce(RMul(RMul(PlusInt(params.gamma, i - 1), PlusInt(params.gamma_hat, i)),
                      xDenominator(i + 1, x)))

RECURSIVE yNumerator(_, _)
yNumerator(j, y) ==
    IF j > y THEN ROne
    ELSE RReduce(RMul(RMul(PlusInt(params.beta2, j - 1), PlusInt(params.beta2_hat, j)),
                      yNumerator(j + 1, y)))

\* the blue denominator without the shift by the red population
RECURSIVE yDenominator_Unshifted(_, _, _)
yDenominator_Unshifted(j, x, y) ==
    IF j > y THEN ROne
    ELSE RReduce(RMul(RMul(PlusInt(params.gamma, j - 1), PlusInt(params.gamma_hat, j)),
                      yDenominator_Unshifted(j + 1, x, y)))

\* the blue terms depend on the red population x
RECURSIVE yDenominator(_, _, _)
yDenominator(j, x, y) ==
    IF j > y THEN ROne
    ELSE RReduce(RMul(RMul(PlusInt(params.gamma, x + j - 1),
                           PlusInt(params.gamma_hat, x + j)),
                      yDenominator(j + 1, x, y)))

\* prob = pi00 * (alpha1/delta1)^x * (alpha2/delta2)^y
BaseProbability(x, y, pi00) ==
    RReduce(RMul(RMul(pi00, MathPow(RReduce(RDiv(params.alpha1, params.delta1)), x)),
                 MathPow(RReduce(RDiv(params.alpha2, params.delta2)), y)))

\* (xNumerator * yNumerator) / (xDenominator * yDenominator)
ProductRatio(x, y) ==
    RReduce(RDiv(RReduce(RMul(xNumerator(1, x), yNumerator(1, y))),
                 RReduce(RMul(xDenominator(1, x), yDenominator(1, x, y)))))

\* the value returned once the factorials f are known
StationaryValue(x, y, pi00, f) ==
    [ok |-> TRUE,
     v  |-> RReduce(RMul(RReduce(RDiv(BaseProbability(x, y, pi00), f.v)),
                         ProductRatio(x, y))),
     cache |-> f.cache]

\* stationaryProbability(x, y, pi00): outcome and the cache after the call.
\* The check `!isFinite(prob) || prob < 0` never fires on exact non-negative
\* rationals.
stationaryProbability(x, y, pi00, cache) ==
    IF ~validateState(x, y) THEN [ok |-> FALSE, v |-> << >>, cache |-> cache]
    ELSE StationaryValue(x, y, pi00, FactorialProduct(x, y, cache))

(***************************************************************************)
(* Distribution keys: the template string `${x},${y}`.  Number-to-string   *)
(* conversion writes the decimal digits, with a minus sign when negative.  *)
(***************************************************************************)
Digit(d) == <<"0", "1", "2", "3", "4", "5", "6", "7", "8", "9">>[d + 1]

RECURSIVE NumberToString(_)
NumberToString(n) ==
    IF n < 0 THEN "-" \o NumberToString(-n)
    ELSE IF n < 10 THEN Digit(n)
    ELSE NumberToString(n \div 10) \o Digit(n % 10)

Key(x, y) == NumberToString(x) \o "," \o NumberToString(y)

EmptyObject == [k \in {} |-> RZero]

\* the nested loops over x and y of getTheoreticalDistribution, flattened:
\* iteration k visits x = k \div (maxStates+1), y = k % (maxStates+1).
\* LoopBody is one iteration, p being the outcome of stationaryProbability:
\*   distribution[`${x},${y}`] = prob;  totalProb += prob;
LoopBody(key, p, distribution, totalProb) ==
    [distribution |-> (key :> p.v) @@ distribution,
     totalProb |-> RReduce(RAdd(totalProb, p.v)),
     cache |-> p.cache]

RECURSIVE UnnormalizedLoop(_, _, _)
UnnormalizedLoop(k, maxStates, acc) ==
    IF acc.totalProb.d = << >> \/ k >= (maxStates + 1) * (maxStates + 1)
    THEN acc
    ELSE UnnormalizedLoop(k + 1, maxStates,
             LoopBody(Key(k \div (maxStates + 1), k % (maxStates + 1)),
                      stationaryProbability(k \div (maxStates + 1),
                                            k % (maxStates + 1), ROne, acc.cache),
                      acc.distribution, acc.totalProb))

\* the normalization loop dividing by the weight of the origin instead of the total
Normalized_ByOrigin(u) ==
    [ok |-> TRUE,
     v  |-> [key \in DOMAIN u.distribution |->
                RReduce(RDiv(u.distribution[key], u.distribution[Key(0, 0)]))],
     cache |-> u.cache]

\* the guard `totalProb <= 1e-100` and the normalization loop
Normalized(u) ==
    IF RLe(u.totalProb, RTenToMinus(100))
    THEN [ok |-> FALSE, v |-> << >>, cache |-> u.cache]
    ELSE [ok |-> TRUE,
          v  |-> [key \in DOMAIN u.distribution |->
                     RReduce(RDiv(u.distribution[key], u.totalProb))],
          cache |-> u.cache]

\* getTheoreticalDistribution(maxStates): outcome and the cache after the call
getTheoreticalDistribution(maxStates, cache) ==
    IF maxStates \notin Nat THEN [ok |-> FALSE, v |-> << >>, cache |-> cache]
    ELSE Normalized(UnnormalizedLoop(0, maxStates,
             [distribution |-> EmptyObject, totalProb |-> RZero, cache |-> cache]))

(***************************************************************************)
(* verifyReversibility(x, y).  A throw of a rate function inside the try   *)
(* block is caught and false is returned.                                  *)
(***************************************************************************)
\* tolerance = 1e-10 * Math.max(clockwise, counterclockwise, 1e-10)
Tolerance(clockwise, counterclockwise) ==
    RMul(RTenToMinus(10), RMax(RMax(clockwise, counterclockwise), RTenToMinus(10)))

\* return Math.abs(clockwise - counterclockwise) < tolerance, false on a throw
ProductsAgree(clockwise, counterclockwise) ==
    IF ~clockwise.ok \/ ~counterclockwise.ok THEN Ok(FALSE)
    ELSE Ok(RLt(RAbsDiff(clockwise.v, counterclockwise.v),
                Tolerance(clockwise.v, counterclockwise.v)))

verifyReversibility(x, y) ==
    IF ~validateState(x, y) THEN Threw
    ELSE ProductsAgree(OkMul(OkMul(OkMul(lambda1(x, y), lambda2(x + 1, y)),
                                   mu2(x + 1, y + 1)), mu1(x, y + 1)),
                       OkMul(OkMul(OkMul(lambda2(x, y), lambda1(x, y + 1)),
                                   mu1(x + 1, y + 1)), mu2(x + 1, y)))

(***************************************************************************)
(* Bounds of the model.                                                    *)
(***************************************************************************)
MaxCoord == 2     \* rate and probability calls take x, y in -1..MaxCoord
MaxGrid  == 2     \* getTheoreticalDistribution takes maxStates in -1..MaxGrid

Coords   == -1..MaxCoord
Grids    == -1..MaxGrid

(***************************************************************************)
(* Parameter sets an engine is constructed with.  The constructor accepts  *)
(* every record of positive finite numbers; these vary the arrival         *)
(* intensity, the competition factor and the red departure enhancement     *)
(* (so that beta1_hat # beta2_hat occurs), and add two further regimes.    *)
(***************************************************************************)
OnesParams ==
    [alpha1 |-> RInt(1), alpha2 |-> RInt(1), beta1 |-> RInt(1), beta2 |-> RInt(1),
     gamma |-> RInt(1), delta1 |-> RInt(1), delta2 |-> RInt(1),
     beta1_hat |-> RInt(1), beta2_hat |-> RInt(1), gamma_hat |-> RInt(1)]

\* valid but extreme: arrival and departure intensities of 1e-12
TinyParams ==
    [DefaultParams EXCEPT !.alpha1 = RTenToMinus(12), !.alpha2 = RTenToMinus(12),
                          !.delta1 = RTenToMinus(12), !.delta2 = RTenToMinus(12)]

ParameterSets ==
    { [DefaultParams EXCEPT !.alpha1 = a, !.gamma = g, !.beta1_hat = h] :
          a \in {Rat(3, 2), RInt(4)}, g \in {Rat(3, 2), RInt(3)},
          h \in {Rat(6, 5), Rat(1, 2)} }
    \cup {OnesParams, TinyParams}

PiChoices == {ROne, Rat(1, 2)}

(***************************************************************************)
(* The engine's public methods as actions.  A method is called on an idle  *)
(* engine (call = NoCall); the state after it holds the arguments and the  *)
(* outcome; Return hands the outcome to the caller.                        *)
(***************************************************************************)
Returned(op, args, outcome) ==
    [op |-> op, args |-> args, threw |-> ~outcome.ok, ret |-> outcome.v]

\* a method that uses the factorial cache returns and leaves the cache behind
Finish(op, args, r) ==
    /\ call' = Returned(op, args, r)
    /\ factorialCache' = r.cache

Idle == call = NoCall /\ sim = NoSim

CallLambda1 ==
    /\ Idle
    /\ \E x \in Coords, y \in Coords :
          call' = Returned("lambda1", <<x, y>>, lambda1(x, y))
    /\ UNCHANGED <<params, factorialCache, sim, dashboard, animation>>

CallLambda2 ==
    /\ Idle
    /\ \E x \in Coords, y \in Coords :
          call' = Returned("lambda2", <<x, y>>, lambda2(x, y))
    /\ UNCHANGED <<params, factorialCache, sim, dashboard, animation>>

CallMu1 ==
    /\ Idle
    /\ \E x \in Coords, y \in Coords :
          call' = Returned("mu1", <<x, y>>, mu1(x, y))
    /\ UNCHANGED <<params, factorialCache, sim, dashboard, animation>>

CallMu2 ==
    /\ Idle
    /\ \E x \in Coords, y \in Coords :
          call' = Returned("mu2", <<x, y>>, mu2(x, y))
    /\ UNCHANGED <<params, factorialCache, sim, dashboard, animation>>

CallTotalRate ==
    /\ Idle
    /\ \E x \in Coords, y \in Coords :
          call' = Returned("totalRate", <<x, y>>, totalRate(x, y))
    /\ UNCHANGED <<params, factorialCache, sim, dashboard, animation>>

CallVerifyReversibility ==
    /\ Idle
    /\ \E x \in Coords, y \in Coords :
          call' = Returned("verifyReversibility", <<x, y>>, verifyReversibility(x, y))
    /\ UNCHANGED <<params, factorialCache, sim, dashboard, animation>>

CallFactorial ==
    /\ Idle
    /\ \E n \in -1..(MaxCoord + 1) :
          Finish("factorial", <<n>>, factorial(n, factorialCache))
    /\ UNCHANGED <<params, sim, dashboard, animation>>

CallStationaryProbability ==
    /\ Idle
    /\ \E x \in Coords, y \in Coords, pi00 \in PiChoices :
          Finish("stationaryProbability", <<x, y, pi00>>,
                 stationaryProbability(x, y, pi00, factorialCache))
    /\ UNCHANGED <<params, sim, dashboard, animation>>

CallGetTheoreticalDistribution ==
    /\ Idle
    /\ \E maxStates \in Grids :
          Finish("getTheoreticalDistribution", <<maxStates>>,
                 getTheoreticalDistribution(maxStates, factorialCache))
    /\ UNCHANGED <<params, sim, dashboard, animation>>

\* the caller takes the outcome; the locals of a finished simulate() are gone
Return ==
    /\ call # NoCall
    /\ call' = NoCall
    /\ sim' = NoSim
    /\ UNCHANGED <<params, factorialCache, dashboard, animation>>

\* new ReversibleMarkovProcess(params): the caches start empty
Init ==
    /\ params \in ParameterSets
    /\ factorialCache = << >>
    /\ call = NoCall
    /\ sim = NoSim
    /\ dashboard = NoDashboard
    /\ animation = NoAnimation

Next ==
    \/ CallLambda1 \/ CallLambda2 \/ CallMu1 \/ CallMu2 \/ CallTotalRate
    \/ CallVerifyReversibility \/ CallFactorial \/ CallStationaryProbability
    \/ CallGetTheoreticalDistribution \/ Return

Spec == Init /\ [][Next]_vars

(***************************************************************************)
(* Statistics over sample lists.  A sample is a record [x, y].             *)
(* getEmpiricalDistribution returns fractions count/total; the signed      *)
(* fractions of calculateStatistics are pairs num/den of TLC integers in   *)
(* lowest terms (the samples are small).                                   *)
(***************************************************************************)
\* the count matrix: counts[`${x},${y}`] = 0 for x, y in 0..maxStates
InitialCounts(maxStates) == [key \in {Key(x, y) : x, y \in 0..maxStates} |-> 0]

\* the callback counting every sample in the total, in the grid or not
CountSample_InTotal(acc, key) ==
    [counts |-> IF key \in DOMAIN acc.counts
                THEN [acc.counts EXCEPT ![key] = @ + 1] ELSE acc.counts,
     totalSamples |-> acc.totalSamples + 1]

\* one callback of samples.forEach: a sample whose key the matrix has is counted
CountSample(acc, key) ==
    IF key \in DOMAIN acc.counts
    THEN [counts |-> [acc.counts EXCEPT ![key] = @ + 1],
          totalSamples |-> acc.totalSamples + 1]
    ELSE acc

RECURSIVE CountSamples(_, _, _)
CountSamples(samples, i, acc) ==
    IF i > Len(samples) THEN acc
    ELSE CountSamples(samples, i + 1, CountSample(acc, Key(samples[i].x, samples[i].y)))

\* distribution[key] = totalSamples > 0 ? counts[key] / totalSamples : 0
ToProbabilities(acc) ==
    [key \in DOMAIN acc.counts |->
        IF acc.totalSamples > 0
        THEN RReduce(Rat(acc.counts[key], acc.totalSamples))
        ELSE RZero]

\* getEmpiricalDistribution without the check of the sample list
getEmpiricalDistribution_Unchecked(samples, maxStates) ==
    Ok(ToProbabilities(CountSamples(samples, 1,
           [counts |-> InitialCounts(maxStates), totalSamples |-> 0])))

getEmpiricalDistribution(samples, maxStates) ==
    IF Len(samples) = 0 THEN Threw
    ELSE Ok(ToProbabilities(CountSamples(samples, 1,
                [counts |-> InitialCounts(maxStates), totalSamples |-> 0])))

\* signed fractions in lowest terms
RECURSIVE GCD(_, _)
GCD(a, b) == IF b = 0 THEN a ELSE GCD(b, a % b)

Abs(n) == IF n < 0 THEN -n ELSE n

Lowest(n, d, g) == [num |-> n \div g, den |-> d \div g]
\* n / d for d # 0
QMake(n, d) == IF d < 0 THEN Lowest(-n, -d, GCD(Abs(n), -d)) ELSE Lowest(n, d, GCD(Abs(n), d))
QInt(k)    == [num |-> k, den |-> 1]
QZero      == QInt(0)
QAdd(a, b) == QMake(a.num * b.den + b.num * a.den, a.den * b.den)
QSub(a, b) == QMake(a.num * b.den - b.num * a.den, a.den * b.den)
QMul(a, b) == QMake(a.num * b.num, a.den * b.den)
QDiv(a, b) == QMake(a.num * b.den, a.den * b.num)
QPos(a)    == a.num > 0

\* samples.reduce((sum, s) => sum + s.x, 0) and its siblings, from sample i on
RECURSIVE SumX(_, _)
SumX(samples, i) ==
    IF i > Len(samples) THEN 0 ELSE samples[i].x + SumX(samples, i + 1)

RECURSIVE SumY(_, _)
SumY(samples, i) ==
    IF i > Len(samples) THEN 0 ELSE samples[i].y + SumY(samples, i + 1)

\* sum of Math.pow(s.x - meanX, 2)
RECURSIVE SumSquaresX(_, _, _)
SumSquaresX(samples, i, meanX) ==
    IF i > Len(samples) THEN QZero
    ELSE QAdd(QMul(QSub(QInt(samples[i].x), meanX), QSub(QInt(samples[i].x), meanX)),
              SumSquaresX(samples, i + 1, meanX))

RECURSIVE SumSquaresY(_, _, _)
SumSquaresY(samples, i, meanY) ==
    IF i > Len(samples) THEN QZero
    ELSE QAdd(QMul(QSub(QInt(samples[i].y), meanY), QSub(QInt(samples[i].y), meanY)),
              SumSquaresY(samples, i + 1, meanY))

\* sum of (s.x - meanX) * (s.y - meanY)
RECURSIVE SumProducts(_, _, _, _)
SumProducts(samples, i, meanX, meanY) ==
    IF i > Len(samples) THEN QZero
    ELSE QAdd(QMul(QSub(QInt(samples[i].x), meanX), QSub(QInt(samples[i].y), meanY)),
              SumProducts(samples, i + 1, meanX, meanY))

\* the sample variance with the plain n as its denominator
Variance_OverN(n, sumSquares) ==
    IF n > 1 THEN QDiv(sumSquares, QInt(n)) ELSE QZero

\* n > 1 ? sum / (n - 1) : 0
Variance(n, sumSquares) ==
    IF n > 1 THEN QDiv(sumSquares, QInt(n - 1)) ELSE QZero

\* covariance / Math.sqrt(varX * varY).  The square root has no exact
\* fraction: the correlation c is held as its sign and its square c^2.
Sign(a) == IF a.num > 0 THEN 1 ELSE IF a.num < 0 THEN -1 ELSE 0
ZeroCorrelation == [sign |-> 0, square |-> QZero]
Correlation(n, covariance, varX, varY) ==
    IF n > 1 /\ QPos(varX) /\ QPos(varY)
    THEN [sign |-> Sign(covariance),
          square |-> QDiv(QMul(covariance, covariance), QMul(varX, varY))]
    ELSE ZeroCorrelation

\* the summary once the means are known
Summary(samples, n, meanX, meanY) ==
    [meanX |-> meanX, meanY |-> meanY,
     varX |-> Variance(n, SumSquaresX(samples, 1, meanX)),
     varY |-> Variance(n, SumSquaresY(samples, 1, meanY)),
     correlation |->
         Correlation(n, IF n > 1
                        THEN QDiv(SumProducts(samples, 1, meanX, meanY), QInt(n - 1))
                        ELSE QZero,
                     Variance(n, SumSquaresX(samples, 1, meanX)),
                     Variance(n, SumSquaresY(samples, 1, meanY))),
     count |-> n]

calculateStatistics(samples) ==
    IF Len(samples) = 0
    THEN Ok([meanX |-> QZero, meanY |-> QZero, varX |-> QZero, varY |-> QZero,
             correlation |-> ZeroCorrelation, count |-> 0])
    ELSE Ok(Summary(samples, Len(samples),
                    QMake(SumX(samples, 1), Len(samples)),
                    QMake(SumY(samples, 1), Len(samples))))

(***************************************************************************)
(* totalVariationDistance(dist1, dist2).  An argument is an object with    *)
(* its entries (key -> probability), or something that is no object.  The  *)
(* keys of allKeys are visited one at a time; the exact sum does not       *)
(* depend on the order of the visits.                                      *)
(***************************************************************************)
JsObject(entries) == [isObject |-> TRUE, entries |-> entries]
NotAnObject       == [isObject |-> FALSE, entries |-> << >>]

\* dist[key] || 0
ValueOrZero(dist, key) == IF key \in DOMAIN dist THEN dist[key] ELSE RZero

\* distance += Math.abs(p1 - p2)
AddDifference(distance, p1, p2) == RReduce(RAdd(distance, RAbsDiff(p1, p2)))

\* the loop over the keys of the first distribution alone
RECURSIVE DistanceOver_FirstKeys(_, _, _, _)
DistanceOver_FirstKeys(allKeys, dist1, dist2, distance) ==
    IF distance.d = << >> \/ allKeys \cap DOMAIN dist1 = {} THEN distance
    ELSE DistanceOver_FirstKeys(
             allKeys \ {CHOOSE key \in allKeys \cap DOMAIN dist1 : TRUE}, dist1, dist2,
             AddDifference(distance,
                 ValueOrZero(dist1, CHOOSE key \in allKeys \cap DOMAIN dist1 : TRUE),
                 ValueOrZero(dist2, CHOOSE key \in allKeys \cap DOMAIN dist1 : TRUE)))

\* for (let key of allKeys) { ... }
RECURSIVE DistanceOver(_, _, _, _)
DistanceOver(allKeys, dist1, dist2, distance) ==
    IF distance.d = << >> \/ allKeys = {} THEN distance
    ELSE DistanceOver(allKeys \ {CHOOSE key \in allKeys : TRUE}, dist1, dist2,
             AddDifference(distance,
                 ValueOrZero(dist1, CHOOSE key \in allKeys : TRUE),
                 ValueOrZero(dist2, CHOOSE key \in allKeys : TRUE)))

\* the result without the division by 2
Halved_Not(distance) == distance

\* return distance / 2
Halved(distance) == RReduce(RDiv(distance, RInt(2)))

totalVariationDistance(dist1, dist2) ==
    IF ~dist1.isObject \/ ~dist2.isObject THEN Threw
    ELSE Ok(Halved(DistanceOver(DOMAIN dist1.entries \cup DOMAIN dist2.entries,
                                dist1.entries, dist2.entries, RZero)))

(***************************************************************************)
(* The rate methods and stationaryProbability called with any numbers, a   *)
(* number being a fraction num/den in lowest terms.  _validateState        *)
(* rejects a number that is no integer (Number.isInteger) before the sign  *)
(* is looked at.                                                           *)
(***************************************************************************)
IsInteger(number) == number.den = 1

RateMethods == {"lambda1", "lambda2", "mu1", "mu2", "totalRate"}

RateOf(method, x, y) ==
    CASE method = "lambda1" -> lambda1(x, y)
      [] method = "lambda2" -> lambda2(x, y)
      [] method = "mu1" -> mu1(x, y)
      [] method = "mu2" -> mu2(x, y)
      [] method = "totalRate" -> totalRate(x, y)

\* valid, and positive, but with a competition normalizer of 1e-11
SmallGammaParams == [DefaultParams EXCEPT !.gamma = RTenToMinus(11)]

\* the numbers passed as x and y: the integers of Coords and some fractions
Numbers == {QInt(k) : k \in Coords} \cup {QMake(-1, 2), QMake(1, 2), QMake(5, 2)}

CallRate ==
    /\ Idle
    /\ \E method \in RateMethods, x \in Numbers, y \in Numbers :
          call' = Returned(method, <<x, y>>,
                           IF IsInteger(x) /\ IsInteger(y)
                           THEN RateOf(method, x.num, y.num) ELSE Threw)
    /\ UNCHANGED <<params, factorialCache, sim, dashboard, animation>>

CallStationaryProbabilityAt ==
    /\ Idle
    /\ \E x \in Numbers, y \in Numbers :
          Finish("stationaryProbability", <<x, y, ROne>>,
                 IF IsInteger(x) /\ IsInteger(y)
                 THEN stationaryProbability(x.num, y.num, ROne, factorialCache)
                 ELSE [ok |-> FALSE, v |-> << >>, cache |-> factorialCache])
    /\ UNCHANGED <<params, sim, dashboard, animation>>

RateInit ==
    /\ params \in ParameterSets \cup {SmallGammaParams}
    /\ factorialCache = << >>
    /\ call = NoCall
    /\ sim = NoSim
    /\ dashboard = NoDashboard
    /\ animation = NoAnimation

RateNext == CallRate \/ CallStationaryProbabilityAt \/ Return

RateSpec == RateInit /\ [][RateNext]_vars

(***************************************************************************)
(* The statistics methods as actions, on sample lists of up to MaxSamples  *)
(* samples drawn from SamplePoints, with the grid bounds of StatGrids.     *)
(***************************************************************************)
MaxSamples == 3

Point(x, y) == [x |-> x, y |-> y]
SamplePoints == {Point(0, 0), Point(1, 2), Point(3, 0), Point(3, 4)}
SampleLists == UNION {[1..n -> SamplePoints] : n \in 0..MaxSamples}
StatGrids == {1, 3, 12}

CallGetEmpiricalDistribution ==
    /\ Idle
    /\ \E samples \in SampleLists, maxStates \in StatGrids :
          call' = Returned("getEmpiricalDistribution", <<samples, maxStates>>,
                           getEmpiricalDistribution(samples, maxStates))
    /\ UNCHANGED <<params, factorialCache, sim, dashboard, animation>>

CallCalculateStatistics ==
    /\ Idle
    /\ \E samples \in SampleLists :
          call' = Returned("calculateStatistics", <<samples>>,
                           calculateStatistics(samples))
    /\ UNCHANGED <<params, factorialCache, sim, dashboard, animation>>

(***************************************************************************)
(* The distributions handed to totalVariationDistance: those the engine    *)
(* returns (theoretical ones, empirical ones, the all-zero one among       *)
(* them), and distributions over other key sets.                           *)
(***************************************************************************)
TheoreticalDistributions ==
    {getTheoreticalDistribution(N, factorialCache).v : N \in {0, 1}}

EmpiricalDistributions ==
    {getEmpiricalDistribution(samples, maxStates).v :
        samples \in UNION {[1..n -> SamplePoints] : n \in 1..2},
        maxStates \in {1, 3}}

OtherDistributions ==
    { ("0,0" :> Rat(1, 2)) @@ ("5,5" :> Rat(1, 2)),
      ("5,5" :> Rat(1, 4)) @@ ("7,7" :> Rat(3, 4)),
      << >> }

Distributions ==
    {JsObject(entries) : entries \in TheoreticalDistributions
                             \cup EmpiricalDistributions \cup OtherDistributions}
    \cup {NotAnObject}

CallTotalVariationDistance ==
    /\ Idle
    /\ \E dist1 \in Distributions, dist2 \in Distributions :
          call' = Returned("totalVariationDistance", <<dist1, dist2>>,
                           totalVariationDistance(dist1, dist2))
    /\ UNCHANGED <<params, factorialCache, sim, dashboard, animation>>

StatInit ==
    /\ params = DefaultParams
    /\ factorialCache = << >>
    /\ call = NoCall
    /\ sim = NoSim
    /\ dashboard = NoDashboard
    /\ animation = NoAnimation

StatNext ==
    \/ CallGetEmpiricalDistribution \/ CallCalculateStatistics
    \/ CallTotalVariationDistance \/ Return

StatSpec == StatInit /\ [][StatNext]_vars

(***************************************************************************)
(* simulate(totalTime, burnInTime, maxStates) as a state machine: sim      *)
(* holds the locals of the running call, one action is one iteration of    *)
(* the while loop.  Simulated time is counted in ticks of 1/20 time unit   *)
(* (totalTime, burnInTime, currentTime and the waiting times are integers  *)
(* of ticks).  The populations x, y and maxStates are fractions num/den,   *)
(* since the code accepts a maxStates that is no integer and assigns it to *)
(* x and y.  Every Math.random() is an input of the action; draws counts   *)
(* the calls of Math.random() made so far.  fraction is the Math.random()  *)
(* of the last selection (rand = fraction * totalRate) and transition the  *)
(* branch the last iteration took, "none" when it applied no event.        *)
(***************************************************************************)
TicksPerUnit      == 4 * 5
SampleInterval    == TicksPerUnit \div 10    \* sampleInterval = 0.1
FallbackIncrement_Tenth == TicksPerUnit \div 10    \* currentTime += 0.1
FallbackIncrement == TicksPerUnit            \* currentTime += 1.0

MaxEvents     == 3    \* stands for maxEvents = 1e6
TrajectoryCap == 2    \* stands for the 10000 records the trajectory may hold

QLt(a, b) == a.num * b.den < b.num * a.den
QLe(a, b) == a.num * b.den <= b.num * a.den
\* Math.max(0, a - 1)
DecrementToZero(a) == IF QLt(QSub(a, QInt(1)), QZero) THEN QZero ELSE QSub(a, QInt(1))

\* the check of the arguments, with burnInTime = 0 rejected as well
InvalidArguments_ZeroBurnIn(totalTime, burnInTime, maxStates) ==
    totalTime <= 0 \/ burnInTime <= 0 \/ QLe(maxStates, QZero)

\* if (totalTime <= 0 || burnInTime < 0 || maxStates <= 0) throw ...
InvalidArguments(totalTime, burnInTime, maxStates) ==
    totalTime <= 0 \/ burnInTime < 0 \/ QLe(maxStates, QZero)

\* Math.floor(Math.random() * 3) + 1
StartValues == {QInt(1), QInt(2), QInt(3)}

\* the locals after the initialization, two random numbers drawn
StartLocals(args, x, y) ==
    [pc |-> "loop", args |-> args, x |-> x, y |-> y, currentTime |-> 0,
     trajectory |-> << >>, samples |-> << >>, lastSampleTime |-> 0,
     eventCount |-> 0, draws |-> 2, fraction |-> RZero, transition |-> "none"]

\* the four rates at the current state; _validateState rejects a coordinate
\* that is no integer (Number.isInteger)
RatesAt(x, y) ==
    IF x.den # 1 \/ y.den # 1
    THEN [rate1 |-> Threw, rate2 |-> Threw, rate3 |-> Threw, rate4 |-> Threw]
    ELSE [rate1 |-> lambda1(x.num, y.num), rate2 |-> lambda2(x.num, y.num),
          rate3 |-> mu1(x.num, y.num), rate4 |-> mu2(x.num, y.num)]

RatesOk(r) == r.rate1.ok /\ r.rate2.ok /\ r.rate3.ok /\ r.rate4.ok

\* totalRate = rate1 + rate2 + rate3 + rate4
RateSum(r) == RAdd(RAdd(RAdd(r.rate1.v, r.rate2.v), r.rate3.v), r.rate4.v)

\* totalRate <= 1e-10
Degenerate(r) == RLe(RateSum(r), RTenToMinus(10))

\* the selection with the departures compared first: rate3, rate3 + rate4,
\* rate3 + rate4 + rate1
Selected_DeparturesFirst(r, rand) ==
    IF RLt(rand, r.rate3.v) THEN "redDeparture"
    ELSE IF RLt(rand, RAdd(r.rate3.v, r.rate4.v)) THEN "blueDeparture"
    ELSE IF RLt(rand, RAdd(RAdd(r.rate3.v, r.rate4.v), r.rate1.v)) THEN "redArrival"
    ELSE "blueArrival"

\* the transition selected by rand = Math.random() * totalRate
Selected(r, rand) ==
    IF RLt(rand, r.rate1.v) THEN "redArrival"
    ELSE IF RLt(rand, RAdd(r.rate1.v, r.rate2.v)) THEN "blueArrival"
    ELSE IF RLt(rand, RAdd(RAdd(r.rate1.v, r.rate2.v), r.rate3.v)) THEN "redDeparture"
    ELSE "blueDeparture"

\* the transitions Math.random() * totalRate can select: those whose
\* interval of the cumulative sums is not empty
Selectable(r) ==
    {transition \in {"redArrival", "blueArrival", "redDeparture", "blueDeparture"} :
        RLt(RZero, (CASE transition = "redArrival"    -> r.rate1.v
                      [] transition = "blueArrival"   -> r.rate2.v
                      [] transition = "redDeparture"  -> r.rate3.v
                      [] transition = "blueDeparture" -> r.rate4.v))}

MoveX(x, transition) ==
    IF transition = "redArrival" THEN QAdd(x, QInt(1))
    ELSE IF transition = "redDeparture" THEN DecrementToZero(x)
    ELSE x

MoveY(y, transition) ==
    IF transition = "blueArrival" THEN QAdd(y, QInt(1))
    ELSE IF transition = "blueDeparture" THEN DecrementToZero(y)
    ELSE y

\* the reflection without the assignment x = maxStates: only the decrement
\* of the second draw brings x back
Reflect_DecrementOnly(x, maxStates, below) ==
    IF QLt(maxStates, x)
    THEN IF below THEN DecrementToZero(maxStates) ELSE x
    ELSE x

\* if (x > maxStates) { x = maxStates; if (Math.random() < 0.5) x = Math.max(0, x - 1); }
Reflect(x, maxStates, below) ==
    IF QLt(maxStates, x)
    THEN IF below THEN DecrementToZero(maxStates) ELSE maxStates
    ELSE x

Reflections(x, maxStates) == IF QLt(maxStates, x) THEN 1 ELSE 0

\* the push without the test currentTime >= burnInTime
Pushed_DuringBurnIn(s, time) ==
    IF Len(s.trajectory) < TrajectoryCap
    THEN Append(s.trajectory, [time |-> time - s.args[2], x |-> s.x, y |-> s.y])
    ELSE s.trajectory

\* a trajectory that evicts its oldest record once the cap is reached
Pushed_Evicting(s, time) ==
    IF time >= s.args[2]
    THEN Append(IF Len(s.trajectory) < TrajectoryCap THEN s.trajectory
                ELSE Tail(s.trajectory),
                [time |-> time - s.args[2], x |-> s.x, y |-> s.y])
    ELSE s.trajectory

\* trajectory.push when the cap is not reached and the burn-in is over
Pushed(s, time) ==
    IF Len(s.trajectory) < TrajectoryCap /\ time >= s.args[2]
    THEN Append(s.trajectory, [time |-> time - s.args[2], x |-> s.x, y |-> s.y])
    ELSE s.trajectory

\* a sample interval of one time unit
Sampling_EveryUnit(s, time) == time >= s.args[2] /\ time >= s.lastSampleTime + TicksPerUnit

\* a sample at every event after the burn-in
Sampling_EveryEvent(s, time) == time >= s.args[2]

Sampling(s, time) == time >= s.args[2] /\ time >= s.lastSampleTime + SampleInterval

\* the end of an iteration that applies an event: x and y are the state
\* after the transition, time the new currentTime
AfterEvent(s, time, x, y, belowX, belowY) ==
    [s EXCEPT !.currentTime = time,
              !.trajectory = Pushed(s, time),
              !.x = Reflect(x, s.args[3], belowX),
              !.y = Reflect(y, s.args[3], belowY),
              !.samples = IF Sampling(s, time)
                          THEN Append(@, [x |-> Reflect(x, s.args[3], belowX),
                                          y |-> Reflect(y, s.args[3], belowY),
                                          time |-> time - s.args[2]])
                          ELSE @,
              !.lastSampleTime = IF Sampling(s, time) THEN time ELSE @,
              !.eventCount = @ + 1,
              !.draws = @ + 2 + Reflections(x, s.args[3]) + Reflections(y, s.args[3])]

Event(s, waitTime, transition, belowX, belowY) ==
    [AfterEvent(s, s.currentTime + waitTime,
                MoveX(s.x, transition), MoveY(s.y, transition), belowX, belowY)
        EXCEPT !.transition = transition]

\* currentTime < totalTime + burnInTime && eventCount < maxEvents
Looping(s) ==
    s.currentTime < s.args[1] + s.args[2] /\ s.eventCount < MaxEvents

\* the object simulate returns
Result(s) ==
    [trajectory |-> s.trajectory, samples |-> s.samples,
     finalState |-> [x |-> s.x, y |-> s.y], eventCount |-> s.eventCount,
     effectiveTime |-> IF s.currentTime - s.args[2] < 0 THEN 0
                       ELSE s.currentTime - s.args[2]]

(***************************************************************************)
(* The inputs of the simulation: the calls made, the waiting times drawn   *)
(* (any positive time can be drawn), the fractions of the total rate drawn *)
(* for the selection.                                                      *)
(***************************************************************************)
RejectedCalls ==
    { <<0, 0, QInt(2)>>, <<-1, 0, QInt(2)>>, <<2, -1, QInt(2)>>,
      <<2, 0, QZero>>, <<2, 0, QInt(-1)>>, <<0, -1, QZero>> }
AcceptedCalls ==
    { <<1, 0, QInt(1)>>,                 \* a ceiling below the initial state
      <<MaxEvents + 1, 0, QInt(2)>>,     \* long enough to hit the event ceiling
      <<2, 2, QInt(3)>>,                 \* with a burn-in period
      <<3, 0, QMake(5, 2)>>,             \* maxStates = 2.5
      <<1, 0, QMake(1, 2)>> }            \* maxStates = 0.5, below one individual
SimulateCalls == RejectedCalls \cup AcceptedCalls

WaitTicks == {1, 3}
Fractions == {Rat(1, 8), Rat(3, 8), Rat(5, 8), Rat(7, 8)}

\* the call: the arguments are checked, then the initial state is drawn
CallSimulate ==
    /\ Idle
    /\ \E args \in SimulateCalls :
          IF InvalidArguments(args[1], args[2], args[3])
          THEN /\ sim' = [pc |-> "rejected", args |-> args, draws |-> 0]
               /\ call' = Returned("simulate", args, Threw)
          ELSE /\ \E x \in StartValues, y \in StartValues :
                     sim' = StartLocals(args, x, y)
               /\ call' = call
    /\ UNCHANGED <<params, factorialCache, dashboard, animation>>

\* the body of the loop once the rates r at the current state are known
IterationWith(r) ==
    IF ~RatesOk(r)
    THEN /\ sim' = [sim EXCEPT !.pc = "failed"]
         /\ call' = Returned("simulate", sim.args, Threw)
    ELSE IF Degenerate(r)
    THEN /\ sim' = [sim EXCEPT !.currentTime = @ + FallbackIncrement,
                              !.transition = "none"]
         /\ call' = call
    ELSE /\ \E waitTime \in WaitTicks, fraction \in Fractions, belowX, belowY \in BOOLEAN :
               sim' = [Event(sim, waitTime, Selected(r, RMul(fraction, RateSum(r))),
                             belowX, belowY) EXCEPT !.fraction = fraction]
         /\ call' = call

SimulateIteration ==
    /\ call = NoCall
    /\ sim.pc = "loop"
    /\ Looping(sim)
    /\ IterationWith(RatesAt(sim.x, sim.y))
    /\ UNCHANGED <<params, factorialCache, dashboard, animation>>

SimulateReturn ==
    /\ call = NoCall
    /\ sim.pc = "loop"
    /\ ~Looping(sim)
    /\ sim' = [sim EXCEPT !.pc = "done"]
    /\ call' = Returned("simulate", sim.args, Ok(Result(sim)))
    /\ UNCHANGED <<params, factorialCache, dashboard, animation>>

SimInit ==
    /\ params \in {DefaultParams, TinyParams}
    /\ factorialCache = << >>
    /\ call = NoCall
    /\ sim = NoSim
    /\ dashboard = NoDashboard
    /\ animation = NoAnimation

SimNext == CallSimulate \/ SimulateIteration \/ SimulateReturn \/ Return

SimSpec == SimInit /\ [][SimNext]_vars

(***************************************************************************)
(* One engine and every public method: any sequence of calls of the rate   *)
(* methods, verifyReversibility, factorial, stationaryProbability,         *)
(* getTheoreticalDistribution, the statistics methods and simulate.        *)
(***************************************************************************)
EngineInit ==
    /\ params = DefaultParams
    /\ factorialCache = << >>
    /\ call = NoCall
    /\ sim = NoSim
    /\ dashboard = NoDashboard
    /\ animation = NoAnimation

EngineNext ==
    \/ CallLambda1 \/ CallLambda2 \/ CallMu1 \/ CallMu2 \/ CallTotalRate
    \/ CallVerifyReversibility \/ CallFactorial \/ CallStationaryProbability
    \/ CallGetTheoreticalDistribution
    \/ CallGetEmpiricalDistribution \/ CallCalculateStatistics
    \/ CallTotalVariationDistance
    \/ CallSimulate \/ SimulateIteration \/ SimulateReturn
    \/ Return

EngineSpec == EngineInit /\ [][EngineNext]_vars

(***************************************************************************)
(* new ReversibleMarkovProcess(params).  A value supplied for a parameter  *)
(* is a JavaScript value: undefined (not supplied), a number (finite with  *)
(* a sign and a magnitude, NaN, or an infinity), a string, or null.        *)
(* _validateMathematicalConstraints only writes warnings to the console.   *)
(***************************************************************************)
JsUndefined          == [type |-> "undefined"]
JsNull               == [type |-> "object"]
JsString(text)       == [type |-> "string", text |-> text]
JsNaN                == [type |-> "number", class |-> "NaN"]
JsInfinity(negative) == [type |-> "number", class |-> "Infinity", negative |-> negative]
JsNumber(negative, abs) ==
    [type |-> "number", class |-> "finite", negative |-> negative, abs |-> abs]

\* requiredParams
ParameterNames ==
    {"alpha1", "alpha2", "beta1", "beta2", "gamma",
     "delta1", "delta2", "beta1_hat", "beta2_hat", "gamma_hat"}

\* value <= 0 for a number (false for NaN)
AtMostZero(value) ==
    IF value.class = "NaN" THEN FALSE
    ELSE IF value.class = "Infinity" THEN value.negative
    ELSE value.negative \/ RIsZero(value.abs)

\* the test of a supplied value without the isFinite part
InvalidParameter_WithoutIsFinite(value) ==
    IF value.type # "number" THEN TRUE ELSE AtMostZero(value)

\* typeof value !== 'number' || value <= 0 || !isFinite(value)
InvalidParameter(value) ==
    IF value.type # "number" THEN TRUE
    ELSE AtMostZero(value) \/ value.class # "finite"

\* _validateParameters: TRUE when it returns, FALSE when it throws
validateParameters(supplied) ==
    \A name \in ParameterNames :
        supplied[name] = JsUndefined \/ ~InvalidParameter(supplied[name])

\* the truthiness that `value || default` tests
Truthy(value) ==
    IF value.type = "number"
    THEN value.class = "Infinity" \/ (value.class = "finite" /\ ~RIsZero(value.abs))
    ELSE IF value.type = "string" THEN value.text # ""
    ELSE FALSE

\* params.X || default
OrDefault(value, default) == IF Truthy(value) THEN value ELSE default

\* the constructor: this.params, or a throw of _validateParameters
constructor(supplied) ==
    IF ~validateParameters(supplied) THEN Threw
    ELSE Ok([name \in ParameterNames |->
                OrDefault(supplied[name], JsNumber(FALSE, DefaultParams[name]))])

\* the state without an engine, before a construction succeeds
NoEngine == [constructed |-> FALSE]

\* the values a caller supplies
SuppliedValues ==
    { JsUndefined, JsNull, JsString(""), JsString("1.5"), JsNaN,
      JsInfinity(FALSE), JsInfinity(TRUE),
      JsNumber(FALSE, RZero), JsNumber(TRUE, RZero), JsNumber(TRUE, RInt(2)),
      JsNumber(FALSE, Rat(1, 2)), JsNumber(FALSE, RInt(3)),
      JsNumber(FALSE, RTenToMinus(12)) }

\* parameter objects with up to two parameters supplied, or all ten alike
SuppliedParams ==
    { [name \in ParameterNames |->
          IF name = name1 THEN value1 ELSE IF name = name2 THEN value2 ELSE JsUndefined] :
      name1 \in ParameterNames, name2 \in {"alpha1", "gamma", "gamma_hat"},
      value1 \in SuppliedValues, value2 \in SuppliedValues }
    \cup { [name \in ParameterNames |-> value] : value \in SuppliedValues }

Construct ==
    /\ params = NoEngine
    /\ call = NoCall
    /\ \E supplied \in SuppliedParams :
          /\ call' = Returned("constructor", <<supplied>>, constructor(supplied))
          /\ params' = IF constructor(supplied).ok
                       THEN [name \in ParameterNames |-> constructor(supplied).v[name].abs]
                       ELSE params
    /\ factorialCache' = << >>
    /\ UNCHANGED <<sim, dashboard, animation>>

ConstructInit ==
    /\ params = NoEngine
    /\ factorialCache = << >>
    /\ call = NoCall
    /\ sim = NoSim
    /\ dashboard = NoDashboard
    /\ animation = NoAnimation

ConstructNext == Construct \/ Return

ConstructSpec == ConstructInit /\ [][ConstructNext]_vars

(***************************************************************************)
(* The dashboard (class MarkovDashboard).  form holds parseFloat of each   *)
(* input of the parameter form; params is the params of                    *)
(* this.markovProcess.  Time is counted in ticks of 50 ms; now is          *)
(* Date.now().  runs holds the calls of _handleRunSimulation that have     *)
(* passed their checks and not ended: pc "timer" while the setTimeout of   *)
(* _runSimulationWithProgress is pending, "plots" while _updateAllPlots is *)
(* awaited.  message is the kind of the message on display, lastEvent the  *)
(* handler that ran last.  The styles of the inputs and the plots are not  *)
(* part of the state, and the factorial cache of the engine is not         *)
(* followed here.                                                          *)
(***************************************************************************)
TickMs         == 5 * 10
UpdateThrottle == 100 \div TickMs    \* updateThrottleMs = 100
MaxClock       == 4                  \* the clock stops here
MaxPending     == 2                  \* runs in progress the model can hold

InputIds == ParameterNames \cup {"simTime", "burnIn", "maxStates"}

Positive(abs) == JsNumber(FALSE, abs)

\* the values of the inputs in index.html, which _handleResetParameters
\* writes back
DefaultForm ==
    [id \in InputIds |->
        IF id \in ParameterNames THEN Positive(DefaultParams[id])
        ELSE IF id = "simTime" THEN Positive(RInt(200))
        ELSE IF id = "burnIn" THEN Positive(RInt(50))
        ELSE Positive(RInt(12))]

\* validationRules[paramName] = [min, max]
ValidationRules(id) ==
    IF id \in {"alpha1", "alpha2", "gamma", "beta1_hat", "beta2_hat"}
    THEN [min |-> Rat(1, 10), max |-> RInt(10)]
    ELSE IF id \in ParameterNames THEN [min |-> Rat(1, 10), max |-> RInt(5)]
    ELSE IF id = "simTime" THEN [min |-> RInt(10), max |-> RInt(10000)]
    ELSE IF id = "burnIn" THEN [min |-> RZero, max |-> RInt(1000)]
    ELSE [min |-> RInt(5), max |-> RInt(50)]

\* isNaN(value) || value <= 0
NotPositive(value) == value.class = "NaN" \/ AtMostZero(value)

\* _validateSingleParameter: the value it returns
validateSingleParameter(value, id) ==
    /\ ~NotPositive(value)
    /\ value.class = "finite"
    /\ RLe(ValidationRules(id).min, value.abs)
    /\ RLe(value.abs, ValidationRules(id).max)

validateAllParameters(form) ==
    \A id \in InputIds : validateSingleParameter(form[id], id)

\* _getParametersFromForm: throws on an input that is NaN or <= 0
getParametersFromForm(form) ==
    IF \E id \in InputIds : NotPositive(form[id]) THEN Threw
    ELSE Ok([name \in ParameterNames |-> form[name]])

\* new ReversibleMarkovProcess(_getParametersFromForm()): its params
EngineFromForm(form) ==
    IF ~getParametersFromForm(form).ok THEN Threw
    ELSE IF ~constructor(getParametersFromForm(form).v).ok THEN Threw
    ELSE Ok([name \in ParameterNames |->
                constructor(getParametersFromForm(form).v).v[name].abs])

\* _updateMarkovProcess: the engine afterwards
UpdatedEngine(form, engine) ==
    IF EngineFromForm(form).ok THEN EngineFromForm(form).v ELSE engine

\* _updateMarkovProcess: _clearError on success, _handleError on a throw
UpdatedMessage(form) == IF EngineFromForm(form).ok THEN "none" ELSE "error"

\* now - this.lastUpdateTime < this.updateThrottleMs
Throttled(d) == d.now - d.lastUpdateTime < UpdateThrottle

\* the finally block of _handleRunSimulation
Finally(d) ==
    [d EXCEPT !.isSimulationRunning = FALSE, !.loading = FALSE,
              !.buttonDisabled = FALSE]

\* _handleRunSimulation without its first test
AlreadyRunning_Never(d) == FALSE

\* if (this.isSimulationRunning) { warn; return; }
AlreadyRunning(d) == d.isSimulationRunning

\* run i ends with a message: the catch or the success, then the finally
Ended(d, i, message) ==
    [Finally(d) EXCEPT !.message = message,
                       !.runs = SubSeq(@, 1, i - 1) \o SubSeq(@, i + 1, Len(@))]

\* _handleRunSimulation up to its first await; engine is this.markovProcess
handleRunSimulation(d, engine) ==
    IF AlreadyRunning(d) THEN [d EXCEPT !.message = "warning"]
    ELSE IF ~validateAllParameters(d.form) THEN [Finally(d) EXCEPT !.message = "error"]
    ELSE IF engine = NoEngine THEN [Finally(d) EXCEPT !.message = "error"]
    ELSE IF RLe(d.form["simTime"].abs, d.form["burnIn"].abs)
    THEN [Finally(d) EXCEPT !.message = "error"]
    ELSE IF \/ RLt(d.form["maxStates"].abs, RInt(5))
            \/ RLt(RInt(50), d.form["maxStates"].abs)
    THEN [Finally(d) EXCEPT !.message = "error"]
    ELSE [d EXCEPT !.isSimulationRunning = TRUE, !.loading = TRUE,
                   !.buttonDisabled = TRUE,
                   !.runs = Append(@, [pc |-> "timer",
                                       simTime |-> d.form["simTime"].abs,
                                       burnIn |-> d.form["burnIn"].abs,
                                       maxStates |-> d.form["maxStates"].abs])]

\* the dashboard after the page has loaded: the constructor has built the
\* engine from the form
LoadedDashboard ==
    [loaded |-> TRUE, form |-> DefaultForm, now |-> UpdateThrottle,
     lastUpdateTime |-> 0, isSimulationRunning |-> FALSE, loading |-> FALSE,
     buttonDisabled |-> FALSE, currentResults |-> << >>, message |-> "none",
     runs |-> << >>, lastEvent |-> "load"]

(***************************************************************************)
(* The events of the page.                                                 *)
(***************************************************************************)
\* the inputs the user edits and the values typed
EditedValues(id) ==
    IF id = "alpha1" THEN {Positive(Rat(3, 2)), Positive(RInt(4)), JsNaN}
    ELSE {Positive(RInt(50)), Positive(RInt(300))}
EditedInputs == {"alpha1", "burnIn"}

\* the samples of the result simulate hands back
SimulationSamples == {<< >>, <<Point(1, 2)>>}

ClockTick ==
    /\ dashboard.loaded
    /\ dashboard.now < MaxClock
    /\ dashboard' = [dashboard EXCEPT !.now = @ + 1, !.lastEvent = "tick"]
    /\ UNCHANGED <<params, factorialCache, call, sim, animation>>

\* the user commits a value: the input holds it and its change event runs
\* _onParameterChange
ParameterChange ==
    /\ dashboard.loaded
    /\ \E id \in EditedInputs : \E value \in EditedValues(id) :
          LET edited == [dashboard EXCEPT !.form[id] = value, !.lastEvent = "change"]
          IN  IF Throttled(edited)
              THEN /\ dashboard' = edited
                   /\ params' = params
              ELSE IF ~validateAllParameters(edited.form)
              THEN /\ dashboard' = [edited EXCEPT !.lastUpdateTime = edited.now]
                   /\ params' = params
              ELSE /\ dashboard' = [edited EXCEPT !.lastUpdateTime = edited.now,
                                                  !.message = UpdatedMessage(edited.form)]
                   /\ params' = UpdatedEngine(edited.form, params)
    /\ UNCHANGED <<factorialCache, call, sim, animation>>

\* _handleResetParameters
ResetParameters ==
    /\ dashboard.loaded
    /\ dashboard' = [dashboard EXCEPT !.form = DefaultForm, !.message = "success",
                                      !.lastEvent = "reset"]
    /\ params' = UpdatedEngine(DefaultForm, params)
    /\ UNCHANGED <<factorialCache, call, sim, animation>>

\* a click on Run Simulation, or Ctrl+Enter
RunRequest ==
    /\ dashboard.loaded
    /\ Len(dashboard.runs) < MaxPending
    /\ dashboard' = [handleRunSimulation(dashboard, params) EXCEPT !.lastEvent = "run"]
    /\ UNCHANGED <<params, factorialCache, call, sim, animation>>

\* the timer of _runSimulationWithProgress fires: simulate runs on the
\* engine of that moment, then the run continues up to await _updateAllPlots;
\* getEmpiricalDistribution throws on an empty sample list
SimulationTimer ==
    /\ dashboard.loaded
    /\ \E i \in 1..Len(dashboard.runs), samples \in SimulationSamples :
          /\ dashboard.runs[i].pc = "timer"
          /\ dashboard' =
                IF samples = << >>
                THEN [Ended(dashboard, i, "error") EXCEPT !.lastEvent = "timer"]
                ELSE [dashboard EXCEPT
                         !.currentResults = [samples |-> samples,
                                             maxStates |-> dashboard.runs[i].maxStates,
                                             parameterSummary |-> params],
                         !.runs[i].pc = "plots",
                         !.lastEvent = "timer"]
    /\ UNCHANGED <<params, factorialCache, call, sim, animation>>

\* _updateAllPlots has settled (it reports its own failures): the success
\* message, then the finally block
PlotsSettled ==
    /\ dashboard.loaded
    /\ \E i \in 1..Len(dashboard.runs) :
          /\ dashboard.runs[i].pc = "plots"
          /\ dashboard' = [Ended(dashboard, i, "success") EXCEPT !.lastEvent = "plots"]
    /\ UNCHANGED <<params, factorialCache, call, sim, animation>>

DashInit ==
    /\ params = DefaultParams
    /\ factorialCache = << >>
    /\ call = NoCall
    /\ sim = NoSim
    /\ dashboard = LoadedDashboard
    /\ animation = NoAnimation

DashNext ==
    \/ ClockTick \/ ParameterChange \/ ResetParameters
    \/ RunRequest \/ SimulationTimer \/ PlotsSettled

DashSpec == DashInit /\ [][DashNext]_vars

(***************************************************************************)
(* The animation (class PopulationAnimationEngine, driven by the           *)
(* dashboard's _toggleAnimation and _resetAnimation).  x and y are the     *)
(* lengths of redPopulation and bluePopulation.  timers holds the pending  *)
(* setTimeout callbacks of _runSimulation, each with the state (x,y) whose *)
(* rates it has captured; no callback is ever cancelled.  chain numbers    *)
(* the call of start() a callback descends from, starts counts the calls   *)
(* of start(), and acted holds the chains that have applied an event since *)
(* the last start().  isAnimationRunning is the flag of the dashboard.     *)
(* The frames of _animate are not followed.                                *)
(***************************************************************************)
MaxStarts == 2    \* calls of start() the model follows

\* new PopulationAnimationEngine(canvas)
CreatedAnimation ==
    [created |-> TRUE, isRunning |-> FALSE, isAnimationRunning |-> FALSE,
     x |-> 0, y |-> 0, timers |-> << >>, starts |-> 0, acted |-> {}]

\* reset(): the populations are emptied, isRunning stays as it is
reset(a) == [a EXCEPT !.x = 0, !.y = 0]

\* pause()
pause(a) == [a EXCEPT !.isRunning = FALSE]

\* _runSimulation() called for chain: a timer is set when isRunning holds
\* (after the wait of the degenerate case as after a sampled waiting time)
runSimulation(a, chain) ==
    IF ~a.isRunning THEN a
    ELSE [a EXCEPT !.timers = Append(@, [x |-> a.x, y |-> a.y, chain |-> chain])]

\* start(markovProcess)
start(a) ==
    runSimulation([reset(a) EXCEPT !.isRunning = TRUE, !.starts = @ + 1,
                                   !.acted = {}],
                  a.starts + 1)

\* the population after the event of a callback; a removal from an empty
\* population does nothing
Applied(a, transition) ==
    CASE transition = "redArrival"    -> [a EXCEPT !.x = @ + 1]
      [] transition = "blueArrival"   -> [a EXCEPT !.y = @ + 1]
      [] transition = "redDeparture"  -> [a EXCEPT !.x = IF @ = 0 THEN 0 ELSE @ - 1]
      [] transition = "blueDeparture" -> [a EXCEPT !.y = IF @ = 0 THEN 0 ELSE @ - 1]

Without(timers, i) == SubSeq(timers, 1, i - 1) \o SubSeq(timers, i + 1, Len(timers))

\* the populations the model follows
WithinView(a) == a.x \in Coords /\ a.y \in Coords

\* a click on Play / Pause: _toggleAnimation
ToggleAnimation ==
    /\ params # NoEngine
    /\ LET a == IF animation.created THEN animation ELSE CreatedAnimation
       IN  IF a.isAnimationRunning
           THEN animation' = [pause(a) EXCEPT !.isAnimationRunning = FALSE]
           ELSE /\ a.starts < MaxStarts
                /\ animation' = [start(a) EXCEPT !.isAnimationRunning = TRUE]
    /\ UNCHANGED <<params, factorialCache, call, sim, dashboard>>

\* a click on Reset: _resetAnimation
ResetAnimation ==
    /\ animation.created
    /\ animation' = [reset(animation) EXCEPT !.isAnimationRunning = FALSE]
    /\ UNCHANGED <<params, factorialCache, call, sim, dashboard>>

\* a pending callback of _runSimulation fires: it returns when isRunning is
\* false, else it applies the event drawn with the rates it captured and
\* calls _runSimulation
StepTimer ==
    /\ animation.created
    /\ \E i \in 1..Len(animation.timers) :
          LET timer == animation.timers[i]
              fired == [animation EXCEPT !.timers = Without(@, i)]
          IN  IF ~animation.isRunning
              THEN animation' = fired
              ELSE IF Degenerate(RatesAt(QInt(timer.x), QInt(timer.y)))
              THEN animation' = runSimulation(fired, timer.chain)
              ELSE \E transition \in Selectable(RatesAt(QInt(timer.x), QInt(timer.y))) :
                      /\ WithinView(Applied(fired, transition))
                      /\ animation' =
                            runSimulation([Applied(fired, transition)
                                              EXCEPT !.acted = @ \cup {timer.chain}],
                                          timer.chain)
    /\ UNCHANGED <<params, factorialCache, call, sim, dashboard>>

AnimInit ==
    /\ params = DefaultParams
    /\ factorialCache = << >>
    /\ call = NoCall
    /\ sim = NoSim
    /\ dashboard = NoDashboard
    /\ animation = NoAnimation

AnimNext == ToggleAnimation \/ ResetAnimation \/ StepTimer

AnimSpec == AnimInit /\ [][AnimNext]_vars

(***************************************************************************)
(* Properties of the engine's pure methods, read off the state in which a  *)
(* call has just returned.                                                 *)
(***************************************************************************)
ValidCorner == call.args[1] \in Nat /\ call.args[2] \in Nat

\* C1: for every corner (x,y) of non-negative integers and every parameter
\* set, verifyReversibility(x,y) returns true.
C1_VerifyReversibilityTrue ==
    (call.op = "verifyReversibility" /\ ValidCorner) =>
        (~call.threw /\ call.ret = TRUE)

RECURSIVE GridSum(_, _, _, _, _)
GridSum(dist, N, unit, lo, hi) ==
    IF lo = hi
    THEN RReduce(RDiv(dist[Key(lo \div (N + 1), lo % (N + 1))], unit))
    ELSE RReduce(RAdd(GridSum(dist, N, unit, lo, (lo + hi) \div 2),
                      GridSum(dist, N, unit, ((lo + hi) \div 2) + 1, hi)))

ValidNumbers ==
    /\ IsInteger(call.args[1]) /\ IsInteger(call.args[2])
    /\ call.args[1].num >= 0 /\ call.args[2].num >= 0

\* what C14 says of the value a rate method has just returned at (x, y)
SignsAndSum(x, y) ==
    /\ ~call.threw
    /\ call.ret.d # << >>
    /\ RLe(RZero, call.ret)
    /\ call.op \in {"lambda1", "lambda2"} => RLt(RZero, call.ret)
    /\ call.op = "mu1" => (RIsZero(call.ret) <=> x = 0)
    /\ call.op = "mu2" => (RIsZero(call.ret) <=> y = 0)
    /\ call.op = "totalRate" =>
          /\ lambda1(x, y).ok /\ lambda2(x, y).ok /\ mu1(x, y).ok /\ mu2(x, y).ok
          /\ RLt(RZero, lambda1(x, y).v) /\ RLt(RZero, lambda2(x, y).v)
          /\ (RIsZero(mu1(x, y).v) <=> x = 0)
          /\ (RIsZero(mu2(x, y).v) <=> y = 0)
          /\ REq(call.ret, RAdd(RAdd(lambda1(x, y).v, mu1(x, y).v),
                                RAdd(lambda2(x, y).v, mu2(x, y).v)))

\* C14 as stated: for every state (x,y) of non-negative integers and every set
\* of positive parameters the four rates are non-negative, mu1 is 0 exactly
\* when x = 0, mu2 is 0 exactly when y = 0, both arrival rates are strictly
\* positive, and totalRate is the sum of the four.
C14_RatesForAllPositiveParameters ==
    (call.op \in RateMethods /\ ValidNumbers) =>
        SignsAndSum(call.args[1].num, call.args[2].num)

\* C14, amended: the same holds whenever gamma + x + y exceeds 1e-10; when it
\* does not (at (0,0) with gamma <= 1e-10) lambda1, lambda2 and totalRate
\* raise, and mu1 and mu2 return 0.
C14_RatesAboveThreshold ==
    (call.op \in RateMethods /\ ValidNumbers) =>
        IF RLt(RTenToMinus(10),
               PlusInt(params.gamma, call.args[1].num + call.args[2].num))
        THEN SignsAndSum(call.args[1].num, call.args[2].num)
        ELSE /\ call.args[1].num = 0 /\ call.args[2].num = 0
             /\ call.op \in {"lambda1", "lambda2", "totalRate"} => call.threw
             /\ call.op \in {"mu1", "mu2"} => (~call.threw /\ RIsZero(call.ret))

C14_Witness ==
    /\ call.op = "totalRate"
    /\ call.args = <<QInt(1), QInt(0)>>
    /\ ~call.threw
    /\ params = SmallGammaParams
    /\ RLt(RZero, mu1(1, 0).v)
    /\ RIsZero(mu2(1, 0).v)
    /\ RLt(mu1(1, 0).v, call.ret)

\* C15: lambda1, lambda2, mu1, mu2, totalRate and stationaryProbability fail
\* whenever x or y is negative or no integer (mu1 with x = 0 and mu2 with
\* y = 0 included), and the failed call leaves the parameters and the
\* factorial cache as they were.
C15_InvalidStateFails ==
    [][(/\ call = NoCall
        /\ call'.op \in RateMethods \cup {"stationaryProbability"}
        /\ \/ ~IsInteger(call'.args[1]) \/ ~IsInteger(call'.args[2])
           \/ call'.args[1].num < 0 \/ call'.args[2].num < 0)
       => (/\ call'.threw
           /\ params' = params
           /\ factorialCache' = factorialCache)]_vars

C15_Witness ==
    /\ call.op = "mu1"
    /\ call.args = <<QInt(0), QMake(5, 2)>>
    /\ call.threw
    /\ factorialCache # << >>

(***************************************************************************)
(* Properties of the statistics methods (specification StatSpec).          *)
(***************************************************************************)
InGrid(sample, maxStates) == sample.x \in 0..maxStates /\ sample.y \in 0..maxStates

\* the positions of the samples of a list that lie in the grid / equal a state
InGridAt(samples, maxStates) ==
    {i \in 1..Len(samples) : InGrid(samples[i], maxStates)}
EqualAt(samples, x, y) ==
    {i \in 1..Len(samples) : samples[i].x = x /\ samples[i].y = y}

GridKeys(maxStates) == {Key(x, y) : x, y \in 0..maxStates}

\* what C8 and C9 say of a returned distribution over the grid
ZeroWhenNothingCounted(samples, maxStates, dist) ==
    /\ DOMAIN dist = GridKeys(maxStates)
    /\ Cardinality(DOMAIN dist) = (maxStates + 1) * (maxStates + 1)
    /\ (InGridAt(samples, maxStates) = {} => \A key \in DOMAIN dist : dist[key] = RZero)

C9_EmpiricalFrequencies ==
    (call.op = "getEmpiricalDistribution"
        /\ InGridAt(call.args[1], call.args[2]) # {}) =>
        LET samples   == call.args[1]
            maxStates == call.args[2]
            inside    == Cardinality(InGridAt(samples, maxStates))
        IN  /\ ~call.threw
            /\ DOMAIN call.ret = GridKeys(maxStates)
            /\ \A x \in 0..maxStates, y \in 0..maxStates :
                  /\ call.ret[Key(x, y)].d # << >>
                  /\ REq(call.ret[Key(x, y)],
                         Rat(Cardinality(EqualAt(samples, x, y)), inside))
            /\ REq(GridSum(call.ret, maxStates, ROne,
                           0, (maxStates + 1) * (maxStates + 1) - 1), ROne)
            /\ (\A i \in 1..Len(samples) : samples[i] = Point(3, 4)) =>
                  \A key \in DOMAIN call.ret :
                      call.ret[key] = IF key = "3,4" THEN ROne ELSE RZero

C9_Witness ==
    /\ call.op = "getEmpiricalDistribution"
    /\ call.args = << <<Point(3, 4), Point(3, 4), Point(3, 4)>>, 12 >>
    /\ ~call.threw
    /\ call.ret["3,4"] = ROne
    /\ call.ret["4,3"] = RZero

\* the sums of the squares of the two coordinates of a sample list
RECURSIVE SquaresX(_, _)
SquaresX(samples, i) ==
    IF i > Len(samples) THEN 0
    ELSE samples[i].x * samples[i].x + SquaresX(samples, i + 1)

RECURSIVE SquaresY(_, _)
SquaresY(samples, i) ==
    IF i > Len(samples) THEN 0
    ELSE samples[i].y * samples[i].y + SquaresY(samples, i + 1)

\* C10: calculateStatistics never raises; for the empty list all of meanX,
\* meanY, varX, varY, correlation and count are 0; for a single sample varX,
\* varY and correlation are 0; correlation is 0 whenever varX or varY is 0;
\* otherwise count is the number of samples and the variances are the sums of
\* squared deviations over n-1, that is (n*sum(x^2) - sum(x)^2) / (n*(n-1)).
C10_StatisticsDegenerate ==
    (call.op = "calculateStatistics") =>
        LET samples == call.args[1]
            n == Len(samples)
            r == call.ret
        IN  /\ ~call.threw
            /\ r.count = n
            /\ (n = 0 => /\ r.meanX = QZero /\ r.meanY = QZero
                         /\ r.varX = QZero /\ r.varY = QZero
                         /\ r.correlation = ZeroCorrelation)
            /\ (n = 1 => /\ r.varX = QZero /\ r.varY = QZero
                         /\ r.correlation = ZeroCorrelation)
            /\ (r.varX = QZero \/ r.varY = QZero => r.correlation = ZeroCorrelation)
            /\ (n > 1 =>
                  /\ r.varX = QMake(n * SquaresX(samples, 1)
                                        - SumX(samples, 1) * SumX(samples, 1),
                                    n * (n - 1))
                  /\ r.varY = QMake(n * SquaresY(samples, 1)
                                        - SumY(samples, 1) * SumY(samples, 1),
                                    n * (n - 1)))

C10_Witness ==
    /\ call.op = "calculateStatistics"
    /\ call.args = << <<Point(3, 0), Point(3, 4)>> >>
    /\ ~call.threw
    /\ call.ret.varX = QZero
    /\ call.ret.varY = QInt(8)
    /\ call.ret.correlation = ZeroCorrelation

\* C11: totalVariationDistance is reflexive and symmetric: the distance of a
\* distribution to itself is 0, and the distance just returned for (A, B) is
\* the distance of (B, A), whatever the key sets of A and B.
C11_DistanceReflexiveSymmetric ==
    (call.op = "totalVariationDistance" /\ ~call.threw) =>
        LET swapped == totalVariationDistance(call.args[2], call.args[1])
        IN  /\ swapped.ok
            /\ REq(call.ret, swapped.v)
            /\ (call.args[1] = call.args[2] => RIsZero(call.ret))

C11_Witness ==
    /\ call.op = "totalVariationDistance"
    /\ ~call.threw
    /\ DOMAIN call.args[1].entries = {"0,0", "5,5"}
    /\ DOMAIN call.args[2].entries = GridKeys(1)
    /\ RLt(call.args[2].entries["1,1"], call.args[2].entries["0,0"])
    /\ RLt(Rat(1, 2), call.ret)

\* the total mass a distribution puts on a set of keys, added to acc
RECURSIVE MassOver(_, _, _)
MassOver(keys, dist, acc) ==
    IF acc.d = << >> \/ keys = {} THEN acc
    ELSE MassOver(keys \ {CHOOSE key \in keys : TRUE}, dist,
                  RReduce(RAdd(acc, dist[CHOOSE key \in keys : TRUE])))

\* the sum of |P(k) - Q(k)| over keys that both distributions have, added to acc
RECURSIVE GapOver(_, _, _, _)
GapOver(keys, P, Q, acc) ==
    IF acc.d = << >> \/ keys = {} THEN acc
    ELSE GapOver(keys \ {CHOOSE key \in keys : TRUE}, P, Q,
                 RReduce(RAdd(acc, RAbsDiff(P[CHOOSE key \in keys : TRUE],
                                            Q[CHOOSE key \in keys : TRUE]))))

\* C12: for two distributions the engine can produce (and any other proper
\* distribution) totalVariationDistance returns half the sum of |P(k) - Q(k)|
\* over the union of the key sets, a missing key counting as 0 (so a key of
\* one distribution alone contributes its mass there), and the result lies
\* in [0, 1].
C12_DistanceHalfSumOverUnion ==
    (call.op = "totalVariationDistance"
        /\ call.args[1].isObject /\ call.args[2].isObject) =>
        LET P == call.args[1].entries
            Q == call.args[2].entries
        IN  /\ ~call.threw
            /\ REq(RMul(RInt(2), call.ret),
                   GapOver(DOMAIN P \cap DOMAIN Q, P, Q,
                           MassOver(DOMAIN P \ DOMAIN Q, P,
                                    MassOver(DOMAIN Q \ DOMAIN P, Q, RZero))))
            /\ RLe(RZero, call.ret)
            /\ RLe(call.ret, ROne)

C12_Witness ==
    /\ call.op = "totalVariationDistance"
    /\ ~call.threw
    /\ DOMAIN call.args[1].entries = GridKeys(1)
    /\ RLt(call.args[1].entries["1,1"], call.args[1].entries["0,0"])
    /\ DOMAIN call.args[2].entries = GridKeys(3)
    /\ call.args[2].entries["3,0"] = ROne
    /\ REq(call.ret, ROne)

(***************************************************************************)
(* Properties of one engine under every public method (specification       *)
(* EngineSpec).                                                            *)
(***************************************************************************)
\* n! as a plain integer
RECURSIVE Factorial(_)
Factorial(n) == IF n <= 1 THEN 1 ELSE n * Factorial(n - 1)

\* every entry of a cache is n -> n!, and what factorial,
\* stationaryProbability and getTheoreticalDistribution return with this
\* cache is what they return with an empty one
CacheIsTransparent(cache) ==
    /\ \A n \in DOMAIN cache : n \in Nat /\ cache[n] = RInt(Factorial(n))
    /\ \A n \in 0..(MaxCoord + 2) :
          /\ factorial(n, cache).ok
          /\ factorial(n, cache).v = RInt(Factorial(n))
    /\ \A x \in 0..(MaxCoord + 1), y \in 0..(MaxCoord + 1) :
          stationaryProbability(x, y, ROne, cache).v
              = stationaryProbability(x, y, ROne, << >>).v
    /\ getTheoreticalDistribution(1, cache).v
          = getTheoreticalDistribution(1, << >>).v

\* C16: along every sequence of public calls on one engine the parameter set
\* stays what it was at construction, every entry of the factorial cache
\* maps n to n!, and factorial(n) and the results computed from it do not
\* depend on the calls made before.  The cache starts empty; the formula
\* looks at every step that leaves a different cache behind.
C16_CacheTransparentParamsFixed ==
    [][/\ params' = params
       /\ factorialCache' # factorialCache => CacheIsTransparent(factorialCache')]_vars

C16_Witness ==
    /\ call.op = "simulate"
    /\ ~call.threw
    /\ call.ret.eventCount > 0
    /\ (MaxCoord + 1) \in DOMAIN factorialCache
    /\ 2 \in DOMAIN factorialCache
    /\ factorialCache[MaxCoord + 1] = RInt(Factorial(MaxCoord + 1))

(***************************************************************************)
(* Properties of the construction (specification ConstructSpec).           *)
(***************************************************************************)
\* a supplied value that is zero, negative, NaN, infinite or no number
BadValue(value) ==
    /\ value # JsUndefined
    /\ \/ value.type # "number"
       \/ value.class = "NaN"
       \/ value.class = "Infinity"
       \/ value.negative
       \/ value.abs.n = << >>

\* C13: the construction fails when any of the ten parameters is supplied as
\* zero, negative, NaN, infinite or non-numeric; after a successful
\* construction each of the ten stored parameters is a strictly positive
\* finite number, the supplied one if there is one and the default otherwise.
C13_ConstructionValidates ==
    (call.op = "constructor") =>
        LET supplied == call.args[1]
        IN  /\ (\E name \in ParameterNames : BadValue(supplied[name])) => call.threw
            /\ call.threw => params = NoEngine
            /\ ~call.threw =>
                  \A name \in ParameterNames :
                     /\ call.ret[name].type = "number"
                     /\ call.ret[name].class = "finite"
                     /\ ~call.ret[name].negative
                     /\ call.ret[name].abs.n # << >>
                     /\ params[name] = call.ret[name].abs
                     /\ RLt(RZero, params[name])
                     /\ call.ret[name].abs =
                           IF supplied[name] = JsUndefined THEN DefaultParams[name]
                           ELSE supplied[name].abs

C13_Witness ==
    /\ call.op = "constructor"
    /\ ~call.threw
    /\ call.args[1]["gamma"] = JsNumber(FALSE, RTenToMinus(12))
    /\ call.args[1]["alpha1"] = JsUndefined
    /\ params.gamma = RTenToMinus(12)
    /\ params.alpha1 = Rat(3, 2)

(***************************************************************************)
(* Properties of simulate (specification SimSpec).                         *)
(***************************************************************************)
\* a state (x,y) of integers with 0 <= x <= maxStates and 0 <= y <= maxStates
WithinCeiling(state, maxStates) ==
    /\ state.x.den = 1 /\ state.y.den = 1
    /\ QLe(QZero, state.x) /\ QLe(state.x, maxStates)
    /\ QLe(QZero, state.y) /\ QLe(state.y, maxStates)

\* C5: every sample simulate returns, and the returned finalState, is a pair
\* of integers within 0..maxStates, for every accepted call.
C5_ResultWithinCeiling ==
    (call.op = "simulate" /\ ~call.threw) =>
        /\ WithinCeiling(call.ret.finalState, call.args[3])
        /\ \A i \in 1..Len(call.ret.samples) :
              WithinCeiling(call.ret.samples[i], call.args[3])

\* C6: every accepted call of simulate returns a result without raising, with
\* eventCount <= maxEvents and either the simulated time at or beyond
\* totalTime + burnInTime or eventCount = maxEvents.
C6_AcceptedCallReturns ==
    (call.op = "simulate"
        /\ ~(call.args[1] <= 0 \/ call.args[2] < 0 \/ call.args[3].num <= 0)) =>
        /\ ~call.threw
        /\ call.ret.eventCount <= MaxEvents
        /\ \/ sim.currentTime >= call.args[1] + call.args[2]
           \/ call.ret.eventCount = MaxEvents

\* C7: simulate fails on its arguments exactly when totalTime <= 0 or
\* burnInTime < 0 or maxStates <= 0, and then no random number has been drawn
\* and no result, partial or whole, is handed out; every other call passes
\* the check and draws its initial state.
C7_RejectsExactlyInvalid ==
    (sim.pc # "none") =>
        /\ sim.pc = "rejected" <=>
              (sim.args[1] <= 0 \/ sim.args[2] < 0 \/ sim.args[3].num <= 0)
        /\ sim.pc = "rejected" =>
              (sim.draws = 0 /\ call.op = "simulate" /\ call.threw /\ call.ret = << >>)
        /\ sim.pc # "rejected" => sim.draws >= 2

C7_Witness ==
    /\ sim.pc = "rejected"
    /\ sim.args[1] > 0 /\ sim.args[2] < 0 /\ sim.args[3].num > 0
    /\ call.op = "simulate" /\ call.threw
    /\ sim.draws = 0

\* C17: within one iteration of the loop the trajectory record is appended
\* after the transition and the reflection: a trajectory record and a sample
\* of the running call that carry the same time (the times of the iterations
\* differ, so both come from one iteration) carry the same (x,y).
C17_RecordMatchesSample ==
    (sim.pc = "loop") =>
        \A i \in 1..Len(sim.trajectory), j \in 1..Len(sim.samples) :
            sim.trajectory[i].time = sim.samples[j].time =>
                /\ sim.trajectory[i].x = sim.samples[j].x
                /\ sim.trajectory[i].y = sim.samples[j].y

\* C18: every trajectory record simulate returns has 0 <= x <= maxStates and
\* 0 <= y <= maxStates, for every accepted maxStates.
C18_TrajectoryWithinCeiling ==
    (call.op = "simulate" /\ ~call.threw) =>
        \A i \in 1..Len(call.ret.trajectory) :
            /\ QLe(QZero, call.ret.trajectory[i].x)
            /\ QLe(call.ret.trajectory[i].x, call.args[3])
            /\ QLe(QZero, call.ret.trajectory[i].y)
            /\ QLe(call.ret.trajectory[i].y, call.args[3])

\* the values x may have after the reflection at maxStates
Reflected(x, maxStates) ==
    IF QLt(maxStates, x) THEN {maxStates, DecrementToZero(maxStates)} ELSE {x}

\* the transition the cumulative sums r1, r1 + r2, r1 + r2 + r3 assign to V,
\* and the state it leads to from (x,y) before the reflection
FiresInOrder(r1, r2, r3, V, transition) ==
    /\ RLt(V, r1) => transition = "redArrival"
    /\ (RLe(r1, V) /\ RLt(V, RAdd(r1, r2))) => transition = "blueArrival"
    /\ (RLe(RAdd(r1, r2), V) /\ RLt(V, RAdd(RAdd(r1, r2), r3))) =>
           transition = "redDeparture"
    /\ RLe(RAdd(RAdd(r1, r2), r3), V) => transition = "blueDeparture"

MovesTo(x, y, transition) ==
    CASE transition = "redArrival"    -> [x |-> QAdd(x, QInt(1)), y |-> y]
      [] transition = "blueArrival"   -> [x |-> x, y |-> QAdd(y, QInt(1))]
      [] transition = "redDeparture"  -> [x |-> QSub(x, QInt(1)), y |-> y]
      [] transition = "blueDeparture" -> [x |-> x, y |-> QSub(y, QInt(1))]

SelectionInOrder(r1, r2, r3, r4, before, after) ==
    /\ FiresInOrder(r1, r2, r3,
                    RMul(after.fraction, RAdd(RAdd(RAdd(r1, r2), r3), r4)),
                    after.transition)
    /\ after.x \in Reflected(MovesTo(before.x, before.y, after.transition).x,
                             before.args[3])
    /\ after.y \in Reflected(MovesTo(before.x, before.y, after.transition).y,
                             before.args[3])

\* C19: in every iteration of simulate that applies an event, with r1..r4 the
\* rates at the state (x,y) of the iteration and V = Math.random() * R in
\* [0,R), R = r1 + r2 + r3 + r4: V < r1 fires the red arrival (x+1),
\* r1 <= V < r1+r2 the blue arrival (y+1), r1+r2 <= V < r1+r2+r3 the red
\* departure (x-1) and V >= r1+r2+r3 the blue departure (y-1); the transition
\* is a function of the state, the rates and V.
C19_SelectionByCumulativeSums ==
    [][(sim.pc = "loop" /\ sim'.pc = "loop" /\ sim'.eventCount = sim.eventCount + 1) =>
          SelectionInOrder(lambda1(sim.x.num, sim.y.num).v,
                           lambda2(sim.x.num, sim.y.num).v,
                           mu1(sim.x.num, sim.y.num).v,
                           mu2(sim.x.num, sim.y.num).v, sim, sim')]_vars

C19_Witness ==
    /\ sim.pc = "loop"
    /\ sim.eventCount >= 2
    /\ sim.transition = "redDeparture"
    /\ sim.fraction = Rat(5, 8)

\* the values x may have after the reflection at maxStates when its
\* Math.max(0, x - 1) leaves x - 1 as it is
ReflectedUnguarded(x, maxStates) ==
    IF QLt(maxStates, x) THEN {maxStates, QSub(maxStates, QInt(1))} ELSE {x}

\* a departure is selected from a population of at least one individual only
DepartureFromPresent(before, after) ==
    /\ after.transition = "redDeparture" => QLe(QInt(1), before.x)
    /\ after.transition = "blueDeparture" => QLe(QInt(1), before.y)

\* the state after the iteration is the one reached with Math.max(0, x - 1)
\* replaced by x - 1, in the selection and in the reflection
GuardsIdle(before, after) ==
    /\ after.x \in ReflectedUnguarded(MovesTo(before.x, before.y, after.transition).x,
                                      before.args[3])
    /\ after.y \in ReflectedUnguarded(MovesTo(before.x, before.y, after.transition).y,
                                      before.args[3])

EventStep(before, after) ==
    before.pc = "loop" /\ after.pc = "loop" /\ after.eventCount = before.eventCount + 1

BoundaryStep(v, w, maxStates) ==
    /\ QLe(v, maxStates) => w = v
    /\ QLt(maxStates, v) =>
          \/ w = maxStates
          \/ w = (IF QLt(maxStates, QInt(1)) THEN QZero ELSE QSub(maxStates, QInt(1)))
    /\ QLe(QZero, w) /\ QLe(w, maxStates)

\* C21: after every applied event of simulate the boundary step has left a
\* coordinate that does not exceed maxStates untouched and has set one that
\* exceeds it to maxStates or to maxStates - 1, never below 0; x <= maxStates
\* and y <= maxStates after every applied event.
C21_BoundaryStep ==
    [][EventStep(sim, sim') =>
          /\ BoundaryStep(MoveX(sim.x, sim'.transition), sim'.x, sim.args[3])
          /\ BoundaryStep(MoveY(sim.y, sim'.transition), sim'.y, sim.args[3])]_vars

\* the first event, a red arrival, took x beyond maxStates = 2 and the
\* boundary step set it to maxStates - 1
C21_Witness ==
    /\ sim.pc = "loop"
    /\ sim.args[3] = QInt(2)
    /\ sim.eventCount = 1
    /\ sim.transition = "redArrival"
    /\ sim.x = QInt(1)

\* the states one applied event leads to from state; none when a rate
\* raises or the total rate is at or below the threshold
EventsAt(r, state, maxStates) ==
    IF ~RatesOk(r) THEN {}
    ELSE IF Degenerate(r) THEN {}
    ELSE {[x |-> Reflect(MoveX(state.x, transition), maxStates, belowX),
           y |-> Reflect(MoveY(state.y, transition), maxStates, belowY)] :
              transition \in Selectable(r), belowX \in BOOLEAN, belowY \in BOOLEAN}

EventsFrom(state, maxStates) == EventsAt(RatesAt(state.x, state.y), state, maxStates)

\* the states finitely many events lead to from the states in seen
RECURSIVE ReachableFrom(_, _, _)
ReachableFrom(seen, frontier, maxStates) ==
    IF frontier = {} THEN seen
    ELSE ReachableFrom(seen \cup frontier,
                       (UNION {EventsFrom(state, maxStates) : state \in frontier})
                           \ (seen \cup frontier),
                       maxStates)

\* {0..maxStates} x {0..maxStates}
BoundedGrid(maxStates) ==
    {[x |-> QInt(i), y |-> QInt(j)] : i \in 0..(maxStates.num \div maxStates.den),
                                      j \in 0..(maxStates.num \div maxStates.den)}

\* C22: from every state the running simulation is in, every state of
\* {0..maxStates} x {0..maxStates} is reached by finitely many events.
C22_NoAbsorbingSet ==
    (sim.pc = "loop") =>
        BoundedGrid(sim.args[3])
            \subseteq ReachableFrom({}, {[x |-> sim.x, y |-> sim.y]}, sim.args[3])

\* the total rate at (x,y) is at or below the threshold 1e-10
AtOrBelowThreshold(x, y) ==
    /\ lambda1(x, y).ok /\ lambda2(x, y).ok /\ mu1(x, y).ok /\ mu2(x, y).ok
    /\ RLe(RAdd(RAdd(RAdd(lambda1(x, y).v, lambda2(x, y).v), mu1(x, y).v), mu2(x, y).v),
           RTenToMinus(10))

\* the iteration advanced the time by 1.0 and nothing else
OnlyTimeAdvanced(before, after) ==
    /\ after.currentTime = before.currentTime + TicksPerUnit
    /\ after.x = before.x /\ after.y = before.y
    /\ after.eventCount = before.eventCount
    /\ after.samples = before.samples
    /\ after.trajectory = before.trajectory
    /\ after.lastSampleTime = before.lastSampleTime

\* C23: an iteration of the loop of simulate at a state whose total rate is
\* at or below the threshold advances the simulated time by exactly 1.0 and
\* leaves x, y, eventCount, the samples, the trajectory and lastSampleTime
\* unchanged.
C23_DegenerateIteration ==
    [][(/\ sim.pc = "loop" /\ sim'.pc = "loop" /\ sim' # sim
        /\ sim.x.den = 1 /\ sim.y.den = 1
        /\ AtOrBelowThreshold(sim.x.num, sim.y.num)) =>
          OnlyTimeAdvanced(sim, sim')]_vars

\* a degenerate iteration has run from the initial state (2,1)
C23_Witness ==
    /\ params = TinyParams
    /\ sim.pc = "loop"
    /\ sim.currentTime = TicksPerUnit
    /\ sim.x = QInt(2) /\ sim.y = QInt(1)
    /\ sim.eventCount = 0
    /\ sim.trajectory = << >> /\ sim.samples = << >>

\* before is after, or after is before with one record appended
AppendedOnly(before, after) ==
    /\ Len(after) \in {Len(before), Len(before) + 1}
    /\ \A i \in 1..Len(before) : after[i] = before[i]

\* C24: the trajectory of simulate never holds more records than the cap
\* (10,000 in the code), an iteration leaves it as it is or appends one
\* record, a trajectory at the cap stays as it is, and the trajectory
\* returned is the one built.
C24_TrajectoryAppendOnly ==
    [][(sim'.pc \in {"loop", "done"}) =>
          /\ Len(sim'.trajectory) <= TrajectoryCap
          /\ (sim.pc = "loop") =>
                /\ AppendedOnly(sim.trajectory, sim'.trajectory)
                /\ Len(sim.trajectory) = TrajectoryCap =>
                      sim'.trajectory = sim.trajectory
          /\ (sim'.pc = "done" /\ sim.pc = "loop") =>
                call'.ret.trajectory = sim.trajectory]_vars

\* three events after the burn-in, the trajectory at the cap: the record of
\* the third event was not appended
C24_Witness ==
    /\ sim.pc = "loop"
    /\ sim.args[2] = 0
    /\ sim.eventCount = TrajectoryCap + 1
    /\ Len(sim.trajectory) = TrajectoryCap
    /\ sim.trajectory[TrajectoryCap].time < sim.currentTime

\* the records are in time order, none before the end of the burn-in
OrderedAfterBurnIn(trajectory) ==
    /\ \A i \in 1..Len(trajectory) : trajectory[i].time >= 0
    /\ \A i \in 1..Len(trajectory), j \in 1..Len(trajectory) :
          i < j => trajectory[i].time <= trajectory[j].time

\* C25: every record of the trajectory of simulate is appended at a
\* simulated time >= burnInTime and stores that time minus burnInTime, which
\* is >= 0; the records of the trajectory built and returned are in
\* increasing time order.
C25_TrajectoryOrdered ==
    [][(sim'.pc \in {"loop", "done"}) =>
          /\ OrderedAfterBurnIn(sim'.trajectory)
          /\ (sim.pc = "loop" /\ Len(sim'.trajectory) > Len(sim.trajectory)) =>
                /\ sim'.currentTime >= sim.args[2]
                /\ sim'.trajectory[Len(sim'.trajectory)].time
                       = sim'.currentTime - sim.args[2]
          /\ (sim'.pc = "done" /\ sim.pc = "loop") =>
                OrderedAfterBurnIn(call'.ret.trajectory)]_vars

\* a run with a burn-in of 2 ticks: the first event fell into the burn-in
\* and left no record, the next two left theirs
C25_Witness ==
    /\ sim.pc = "loop"
    /\ sim.args[2] = 2
    /\ sim.eventCount = 3
    /\ Len(sim.trajectory) = 2
    /\ sim.trajectory[1].time = 0
    /\ sim.trajectory[2].time = 1

\* consecutive samples are at least the sample interval apart
SpacedSamples(samples) ==
    \A i \in 1..Len(samples) :
        /\ samples[i].time >= 0
        /\ i > 1 => samples[i].time >= samples[i - 1].time + SampleInterval

\* C26: simulate records no sample while the simulated time is below
\* burnInTime, at most one sample per applied event and none without one,
\* and consecutive samples are at least the sample interval (0.1) apart.
C26_SamplesSpaced ==
    [][(sim.pc = "loop" /\ sim'.pc = "loop") =>
          /\ SpacedSamples(sim'.samples)
          /\ Len(sim'.samples) - Len(sim.samples)
                 \in {0, sim'.eventCount - sim.eventCount}
          /\ \A i \in 1..Len(sim.samples) : sim'.samples[i] = sim.samples[i]
          /\ sim'.currentTime < sim.args[2] => sim'.samples = << >>
          /\ Len(sim'.samples) > Len(sim.samples) =>
                /\ sim'.currentTime >= sim.args[2]
                /\ sim'.currentTime >= sim.lastSampleTime + SampleInterval
                /\ sim'.lastSampleTime = sim'.currentTime]_vars

\* three events half a sample interval apart: only the second one recorded
\* a sample
C26_Witness ==
    /\ sim.pc = "loop"
    /\ sim.args[2] = 0
    /\ sim.eventCount = 3
    /\ sim.currentTime = 3
    /\ Len(sim.samples) = 1
    /\ sim.samples[1].time = 2

\* simulate has returned from a call with totalTime + burnInTime >= 0.1 whose
\* loop ended with the simulated time at or beyond totalTime + burnInTime
ReturnedUntruncated ==
    /\ call.op = "simulate" /\ ~call.threw
    /\ sim.pc = "done"
    /\ call.args[1] + call.args[2] >= SampleInterval
    /\ sim.currentTime >= call.args[1] + call.args[2]

\* C27 as stated: a call of simulate with totalTime + burnInTime >= 0.1 that
\* the event ceiling does not truncate returns a non-empty sample list and
\* effectiveTime >= totalTime.
C27_SamplesNonEmpty ==
    ReturnedUntruncated =>
        /\ call.ret.samples # << >>
        /\ call.ret.effectiveTime >= call.args[1]

\* C27, amended: such a call returns effectiveTime >= totalTime, and a
\* non-empty sample list when the last iteration of its loop applied an
\* event.
C27_SamplesNonEmptyAfterEvent ==
    ReturnedUntruncated =>
        /\ sim.transition # "none" => call.ret.samples # << >>
        /\ call.ret.effectiveTime >= call.args[1]

\* a run with a burn-in whose only sample comes from the event that carried
\* the time to totalTime + burnInTime
C27_Witness ==
    /\ ReturnedUntruncated
    /\ sim.transition # "none"
    /\ call.args[2] = 2
    /\ sim.eventCount = 2
    /\ Len(call.ret.samples) = 1
    /\ call.ret.samples[1].time = sim.currentTime - call.args[2]

(***************************************************************************)
(* Properties of the dashboard (specification DashSpec).                   *)
(***************************************************************************)
\* the engine holds the values of the parameter form
EngineHoldsForm(engine, form) ==
    \A name \in ParameterNames : engine[name] = form[name].abs

\* C28: whenever the dashboard starts a simulation run, the params of its
\* engine are the values in the parameter form: every valid change event,
\* at any spacing in time, has reached the engine before the run starts.
C28_RunUsesFormParameters ==
    [][Len(dashboard'.runs) > Len(dashboard.runs) =>
          EngineHoldsForm(params', dashboard'.form)]_vars

\* the step is a run request handled while a run is in progress
RequestWhileRunning(before, after) ==
    /\ before.isSimulationRunning
    /\ after.lastEvent = "run"
    /\ after # before

\* C30: at most one simulation run is in progress in the dashboard, and the
\* flag isSimulationRunning tells whether one is; a run request handled
\* while the flag is true starts no simulation and leaves the flag, the
\* results and the loading state as they are; when a run ends (with
\* success, or with a raise) and when a request fails validation, the flag
\* is false afterwards.
C30_OneRunAtATime ==
    [][/\ Len(dashboard'.runs) <= 1
       /\ dashboard'.isSimulationRunning <=> (Len(dashboard'.runs) = 1)
       /\ dashboard'.loading = dashboard'.isSimulationRunning
       /\ RequestWhileRunning(dashboard, dashboard') =>
             /\ dashboard'.runs = dashboard.runs
             /\ dashboard'.isSimulationRunning
             /\ dashboard'.currentResults = dashboard.currentResults
             /\ dashboard'.loading = dashboard.loading
       /\ Len(dashboard'.runs) < Len(dashboard.runs) =>
             ~dashboard'.isSimulationRunning
       /\ (dashboard'.lastEvent = "run" /\ dashboard' # dashboard
              /\ ~validateAllParameters(dashboard.form)
              /\ ~dashboard.isSimulationRunning) =>
             (~dashboard'.isSimulationRunning /\ dashboard'.runs = << >>)]_vars

\* a request has been refused with the warning while a run waits for its
\* plots, its results stored
C30_Witness ==
    /\ dashboard.isSimulationRunning
    /\ Len(dashboard.runs) = 1
    /\ dashboard.runs[1].pc = "plots"
    /\ dashboard.currentResults # << >>
    /\ dashboard.lastEvent = "run"
    /\ dashboard.message = "warning"

(***************************************************************************)
(* Properties of the animation (specification AnimSpec).                   *)
(***************************************************************************)
\* C29: the animation engine has at most one active chain of step timers:
\* while it is running at most one step callback is pending, and every
\* event applied since the last start() was applied by the chain that
\* start() began, never by a callback scheduled before an earlier pause.
C29_OneTimerChain ==
    animation.created =>
        /\ animation.isRunning => Len(animation.timers) <= 1
        /\ animation.acted \subseteq {animation.starts}

=============================================================================
